---- MODULE Spec2Model ----
(***************************************************************************)
(* Smart Form Guide: the sidebar orchestrator (SmartFormGuideSidebar) and  *)
(* the content-script field detector (FormAssistant).                      *)
(*                                                                         *)
(* Spec        the two-button workflow sidebar: analyzeFields,             *)
(*             showProjectSelection, selectProject / startAutoFill.        *)
(* SpecLegacy  the Detect Forms / Auto Fill sidebar: detectForms,          *)
(*             autoFillForms with its sample-data fallback.                *)
(* SpecPasses  overlapping detection passes of the legacy sidebar only.    *)
(* SpecDetect  one detection pass over a bounded document.                 *)
(* SpecFields  the three detection paths on one scan scope.                *)
(* SpecApply   the Value Applier on a bounded page and value map.          *)
(* SpecLabel   getFieldLabel and classifyField on one element.             *)
(* SpecScript  the content script: init, observer, message listener.       *)
(* SpecLog     the background script's activity log.                       *)
(*                                                                         *)
(* Every await of the source is one step of a task: the step draws the     *)
(* outcome of the awaited call and runs the code up to the next await.     *)
(***************************************************************************)
EXTENDS Integers, Sequences, FiniteSets, TLC

\* ------------------------------------------------------------------ bounds
\* Sidebar operations in flight at once: the slot of a finished operation
\* keeps its outcome until the next operation takes it.
MaxInFlight == 2
\* Sidebar operations started in one session.
MaxSession == 4
\* Controls in the modelled document.
MaxControls == 3
\* Controls in a document of one scan scope.
MaxFields == 2
\* Controls on a page the Value Applier runs on.
MaxTargets == 2
\* Entries of a value map.
MaxEntries == 2
\* Characters of the text a label is read from.
MaxLabel == 4
\* Controls in the document the content script watches.
MaxObserved == 2
\* Mutation records delivered to the observer in one batch.
MaxRecords == 2
\* FORM_FILLED messages the background script handles in a run.
MaxActivities == 3

\* --------------------------------------------------------------- variables
VARIABLES
    formFields,               \* this.formFields
    analyzedFields,           \* this.analyzedFields ([null, fields])
    selectedProject,          \* this.selectedProject ("null" or a project id)
    workflowState,            \* this.workflowState
    selectProjectBtnDisabled, \* #selectProjectBtn.disabled
    autofillProgress,         \* #autofillProgress is displayed
    noForms,                  \* what #noForms shows: "hidden", "nofields", "error"
    fillFormsBtnDisabled,     \* #fillFormsBtn.disabled
    detectFormsBtnDisabled,   \* #detectFormsBtn.disabled
    timerPending,             \* startFormDetection's setTimeout has not fired yet
    projectItems,             \* the .project-item elements carrying a click handler
    tasks,                    \* the async operations in flight, and finished ones
    started,                  \* operations started so far in the session
    applied,                  \* the project whose value map was applied last
    sampleFills,              \* fillFormsOnPage(sampleData) has run on the page
    unhandled,                \* a promise of the sidebar rejected with no handler
    lastResponse,             \* the detection response the sidebar processed last
    dom,                      \* the document: controls in document order
    containers,               \* form-like containers, as ranges of controls
    detectedFields,           \* FormAssistant.detectedFields
    injectedFields,           \* result.fields of the injected detectFormsOnPage
    simpleFields,             \* result.fields of sidebar.js's detectFormsOnPage
    mappings,                 \* the value map handed to the Value Applier
    events,                   \* the events dispatched on the page, in order
    filled,                   \* the Value Applier's count of filled controls
    thrown,                   \* the entry at which the Value Applier threw, or 0
    applierDone,              \* the Value Applier has run on the page
    elem,                     \* the element getFieldLabel / classifyField is called on
    elemLabel,                \* what getFieldLabel(element) returned (<<>> before the call)
    elemType,                 \* what classifyField(element) returned ("none" before the call)
    scriptPc,                 \* the content script: "domLoading", "loading" (init awaits), "idle"
    permitSite,               \* hostname or URL holds one of isPermitWebsite's indicators
    observing,                \* startMutationObserver has run
    records,                  \* mutation records queued for the observer's callback
    roundTrip,                \* the sidebar's detectForms / getDetectedFields exchange
    activityLog,              \* chrome.storage.local's activityLog
    storageQueue,             \* storage requests issued and not yet performed, in order
    callbacks,                \* results of storage.get awaiting logActivity's callback
    logged,                   \* the activities passed to logActivity, in call order
    handled,                  \* FORM_FILLED messages handled so far
    lastReply                 \* what handleFormFilled passed to sendResponse last

sidebarVars ==
    <<formFields, analyzedFields, selectedProject, workflowState,
      selectProjectBtnDisabled, autofillProgress, noForms, fillFormsBtnDisabled,
      detectFormsBtnDisabled, timerPending, projectItems, tasks, started, applied,
      sampleFills, unhandled, lastResponse>>

applierVars == <<mappings, events, filled, thrown, applierDone>>

labelVars == <<elem, elemLabel, elemType>>

scriptVars == <<scriptPc, permitSite, observing, records, roundTrip>>

logVars == <<activityLog, storageQueue, callbacks, logged, handled, lastReply>>

pageVars ==
    <<dom, containers, detectedFields, injectedFields, simpleFields, applierVars,
      labelVars, scriptVars, logVars>>

vars == <<sidebarVars, pageVars>>

\* ------------------------------------------------------------ sidebar data
Projects == {"A", "B"}

\* Project lists /api/projects can answer with.
ProjectLists == {{}, {"A"}, {"A", "B"}}

\* Field lists a detection round trip can return (the page may change between
\* two detections); each field carries what the two detection paths report.
FieldText  == [id |-> "customer_name", type |-> "text", confidence |-> 8]
FieldRadio == [id |-> "program", type |-> "radio-group", confidence |-> 5]

DetectionResults == { <<>>, <<FieldText>>, <<FieldText, FieldRadio>> }

\* analyzeFields: this.formFields.map(field => ({id, name, type, ...}))
AnalysisFields(fields) ==
    [k \in DOMAIN fields |-> [id |-> fields[k].id, type |-> fields[k].type]]

NullFields == [null |-> TRUE, fields |-> <<>>]

NoRequest == [fields |-> NullFields, project |-> "null"]

\* result.fieldValues of the /api/auto-fill response: absent, or a map from
\* field ids to values (possibly empty).
AbsentValues == [present |-> FALSE, keys |-> {}, from |-> "null"]

FieldValuesOf(req) ==
    { AbsentValues,
      [present |-> TRUE, keys |-> {}, from |-> req.project],
      [present |-> TRUE,
       keys |-> {req.fields.fields[k].id : k \in DOMAIN req.fields.fields},
       from |-> req.project] }

NothingApplied == "null"

\* seq: when the operation's detection pass started, as a number above that of
\* every pass then in flight or answered before (0 with no pass in flight).
NoTask ==
    [op |-> "none", pc |-> "idle", req |-> NoRequest, fv |-> AbsentValues,
     emptyMap |-> FALSE, alert |-> "", failed |-> "", upload |-> "",
     ran |-> FALSE, inCatch |-> FALSE, seq |-> 0]

\* No detection response has been processed: fields is the list the response
\* carried, stale whether a pass started after the response's pass had been
\* answered before it, and newest the highest seq of an answered pass, kept
\* while a pass started before that one is in flight.
NoResponse == [present |-> FALSE, fields |-> <<>>, newest |-> 0, stale |-> FALSE]

Ops == 1..MaxInFlight

Free(i) == tasks[i].pc \in {"idle", "done"}

InFlight(op) == {i \in Ops : tasks[i].op = op /\ ~Free(i)}

\* updateWorkflowStatus: selectProjectBtn.disabled = !workflowState.fieldsAnalyzed
SelectProjectDisabledMutant(ws) == FALSE
SelectProjectDisabled(ws) == ~ws.fieldsAnalyzed

\* sendFieldAnalysisToBackend: does a failure of the upload leave the function
\* as an exception?  The catch block logs and does not rethrow.
UploadThrowsMutant(outcome) == outcome # "ok"
UploadThrows(outcome) == FALSE

\* startAutoFill's catch block: hideAutoFillProgress() leaves the indicator off.
ProgressAfterCatchMutant == TRUE
ProgressAfterCatch == FALSE

\* ------------------------------------------------------------------- Init
SidebarInit ==
    /\ formFields = <<>>
    /\ analyzedFields = NullFields
    /\ selectedProject = "null"
    /\ workflowState = [fieldsAnalyzed |-> FALSE, projectSelected |-> FALSE]
    /\ selectProjectBtnDisabled =
           SelectProjectDisabled([fieldsAnalyzed |-> FALSE, projectSelected |-> FALSE])
    /\ autofillProgress = FALSE
    /\ noForms = "hidden"
    /\ fillFormsBtnDisabled = TRUE
    /\ detectFormsBtnDisabled = FALSE
    /\ timerPending = FALSE
    /\ projectItems = {}
    /\ tasks = [i \in Ops |-> NoTask]
    /\ started = 0
    /\ applied = NothingApplied
    /\ sampleFills = FALSE
    /\ unhandled = FALSE
    /\ lastResponse = NoResponse

ApplierIdle ==
    /\ mappings = <<>>
    /\ events = <<>>
    /\ filled = 0
    /\ thrown = 0
    /\ applierDone = FALSE

NothingDetected ==
    /\ detectedFields = <<>>
    /\ injectedFields = <<>>
    /\ simpleFields = <<>>

\* No element has been handed to the label resolver or the classifier.
NoElement ==
    [tag |-> "", type |-> "", name |-> <<>>, id |-> <<>>, placeholder |-> <<>>,
     labelText |-> <<>>]

LabelIdle ==
    /\ elem = NoElement
    /\ elemLabel = <<>>
    /\ elemType = "none"

\* No message exchange with the content script has started.
NoRoundTrip == [pc |-> "none", fieldsCount |-> 0, fields |-> <<>>]

\* The content script is not part of the run.
ScriptIdle ==
    /\ scriptPc = "idle"
    /\ permitSite = FALSE
    /\ observing = FALSE
    /\ records = <<>>
    /\ roundTrip = NoRoundTrip

\* The background script has logged nothing and the stored log is empty.
LogIdle ==
    /\ activityLog = <<>>
    /\ storageQueue = <<>>
    /\ callbacks = <<>>
    /\ logged = <<>>
    /\ handled = 0
    /\ lastReply = "none"

PageIdle ==
    /\ dom = <<>>
    /\ containers = <<>>
    /\ NothingDetected
    /\ ApplierIdle
    /\ LabelIdle
    /\ ScriptIdle
    /\ LogIdle

Init == SidebarInit /\ PageIdle

\* -------------------------------------------------------- task bookkeeping
Highest(S) == IF S = {} THEN 0 ELSE CHOOSE x \in S : \A y \in S : y <= x

NextSeq == 1 + Highest({tasks[j].seq : j \in Ops} \cup {lastResponse.newest})

\* A new operation takes the first slot that holds no pending operation.
Start(op, pc, req) ==
    \E i \in Ops :
        /\ started < MaxSession
        /\ started' = started + 1
        /\ Free(i)
        /\ \A j \in Ops : j < i => ~Free(j)
        /\ tasks' = [tasks EXCEPT ![i] =
                        [NoTask EXCEPT !.op = op, !.pc = pc, !.req = req,
                                       !.seq = IF pc = "df_tabs"
                                               THEN NextSeq ELSE 0]]

At(i, pc) == tasks[i].pc = pc

Goto(i, pc) == tasks' = [tasks EXCEPT ![i].pc = pc]

\* The operation of slot i ends as t: the slot keeps how it ended (what was
\* shown to the user, which call failed, whether the applier ran).
Done(i, t) ==
    tasks' = [tasks EXCEPT ![i] =
                 [t EXCEPT !.pc = "done", !.req = NoRequest, !.fv = AbsentValues,
                           !.seq = 0]]

detectUi == <<noForms, fillFormsBtnDisabled, detectFormsBtnDisabled>>

workflow == <<analyzedFields, selectedProject, workflowState, selectProjectBtnDisabled>>

UNCH_page == UNCHANGED <<applied, sampleFills, pageVars, lastResponse>>

UNCH_started == UNCHANGED started

\* ------------------------------------------------------------ detectForms
\* detectForms up to its first await (chrome.tabs.query): the loading state.
EnterDetect == detectFormsBtnDisabled' = TRUE

\* analyzeFields after `await this.detectForms()` has returned with formFields = ff.
AnalyzeAfterDetect(i, t, ff) ==
    IF Len(ff) = 0
    THEN /\ Done(i, [t EXCEPT !.alert = "No form fields detected"])
         /\ UNCHANGED <<analyzedFields, workflowState>>
    ELSE /\ analyzedFields' = [null |-> FALSE, fields |-> AnalysisFields(ff)]
         /\ workflowState' = [workflowState EXCEPT !.fieldsAnalyzed = TRUE]
         /\ tasks' = [tasks EXCEPT ![i] = [t EXCEPT !.pc = "af_upload"]]

\* autoFillForms after `await this.detectForms()`: no fields throws into the
\* catch block, which awaits autoFillWithSampleData().
LegacyAfterDetect(i, t, ff) ==
    /\ IF Len(ff) = 0
       THEN tasks' = [tasks EXCEPT ![i] = [t EXCEPT !.pc = "sd_tabs", !.inCatch = TRUE]]
       ELSE tasks' = [tasks EXCEPT ![i] = [t EXCEPT !.pc = "al_doc"]]
    /\ UNCHANGED <<analyzedFields, workflowState>>

\* this.formFields = fieldsResponse.fields || [] (and formData.fields || []):
\* is the response of pass i dropped because a pass started after it has been
\* answered already?  detectForms holds no such test.
DiscardedMutant(i) == tasks[i].seq < lastResponse.newest

Discarded(i) == FALSE

\* The end of detectForms (result handling or catch block, then finally) and
\* the caller's code up to its next await.  err: the outer catch block ran.
DetectReturn(i, ff, err) ==
    /\ formFields' = IF Discarded(i) THEN formFields ELSE ff
    /\ LET answered == IF err THEN lastResponse.newest
                        ELSE Highest({tasks[i].seq, lastResponse.newest})
           newest == IF \E j \in Ops \ {i} : 0 < tasks[j].seq /\ tasks[j].seq < answered
                     THEN answered ELSE 0
       IN  lastResponse' =
               IF err THEN [lastResponse EXCEPT !.newest = newest]
               ELSE [present |-> TRUE, fields |-> ff, newest |-> newest,
                     stale |-> tasks[i].seq < lastResponse.newest]
    /\ noForms' = IF err THEN "error" ELSE IF Len(ff) > 0 THEN "hidden" ELSE "nofields"
    /\ fillFormsBtnDisabled' = (err \/ Len(ff) = 0)
    /\ detectFormsBtnDisabled' = FALSE
    /\ LET t == [tasks[i] EXCEPT !.failed = IF err THEN "detection" ELSE @,
                                  !.seq = 0] IN
       CASE t.op = "analyzeFields" -> AnalyzeAfterDetect(i, t, ff)
         [] t.op = "autoFillForms" -> LegacyAfterDetect(i, t, ff)
         [] OTHER -> Done(i, t) /\ UNCHANGED <<analyzedFields, workflowState>>
    /\ UNCHANGED <<selectedProject, selectProjectBtnDisabled, autofillProgress,
                   timerPending, projectItems, unhandled>>
    /\ UNCHANGED <<applied, sampleFills, pageVars>>

\* const tabs = await chrome.tabs.query(...) inside detectForms
DfTabs(i) ==
    /\ UNCH_started
    /\ At(i, "df_tabs")
    /\ \E out \in {"reject", "none", "tab"} :
         IF out = "tab"
         THEN /\ Goto(i, "df_detectMsg")
              /\ UNCHANGED <<formFields, workflow, autofillProgress, detectUi,
                             timerPending, projectItems, unhandled>>
              /\ UNCH_page
         ELSE DetectReturn(i, formFields, TRUE)

\* await chrome.tabs.sendMessage(tab, {action: 'detectForms'})
DfDetectMsg(i) ==
    /\ UNCH_started
    /\ At(i, "df_detectMsg")
    /\ \E out \in {"reject", "fail", "ok"} :
         Goto(i, IF out = "ok" THEN "df_fieldsMsg" ELSE "df_inject")
    /\ UNCHANGED <<formFields, workflow, autofillProgress, detectUi,
                   timerPending, projectItems, unhandled>>
    /\ UNCH_page

\* await chrome.tabs.sendMessage(tab, {action: 'getDetectedFields'})
DfFieldsMsg(i) ==
    /\ UNCH_started
    /\ At(i, "df_fieldsMsg")
    /\ \/ /\ Goto(i, "df_inject")
          /\ UNCHANGED <<formFields, workflow, autofillProgress, detectUi,
                         timerPending, projectItems, unhandled>>
          /\ UNCH_page
       \/ \E ff \in DetectionResults : DetectReturn(i, ff, FALSE)

\* await chrome.scripting.executeScript({func: this.detectFormsOnPage})
DfInject(i) ==
    /\ UNCH_started
    /\ At(i, "df_inject")
    /\ \/ DetectReturn(i, formFields, TRUE)
       \/ \E ff \in DetectionResults : DetectReturn(i, ff, FALSE)

\* ---------------------------------------------------------- analyzeFields
\* A click on Analyze Fields: analyzeFields up to `await chrome.tabs.query`.
ClickAnalyzeFields ==
    /\ Start("analyzeFields", "af_tabs", NoRequest)
    /\ UNCHANGED <<formFields, workflow, autofillProgress, detectUi,
                   timerPending, projectItems, unhandled>>
    /\ UNCH_page

\* const tabs = await chrome.tabs.query(...) of analyzeFields, then the
\* synchronous head of detectForms.
AfTabs(i) ==
    /\ UNCH_started
    /\ At(i, "af_tabs")
    /\ \E out \in {"reject", "none", "tab"} :
         IF out = "tab"
         THEN /\ tasks' = [tasks EXCEPT ![i].pc = "df_tabs", ![i].seq = NextSeq]
              /\ EnterDetect
         ELSE /\ Done(i, [tasks[i] EXCEPT !.alert = "Field analysis failed",
                                          !.failed = "tabs"])
              /\ UNCHANGED detectFormsBtnDisabled
    /\ UNCHANGED <<formFields, workflow, autofillProgress, noForms,
                   fillFormsBtnDisabled, timerPending, projectItems, unhandled>>
    /\ UNCH_page

\* The rest of analyzeFields once sendFieldAnalysisToBackend has returned:
\* updateWorkflowStatus() and showAnalysisResults().
AnalyzeFinish(i, outcome) ==
    IF UploadThrows(outcome)
    THEN /\ Done(i, [tasks[i] EXCEPT !.alert = "Field analysis failed",
                                     !.upload = outcome])
         /\ UNCHANGED selectProjectBtnDisabled
    ELSE /\ Done(i, [tasks[i] EXCEPT !.upload = outcome])
         /\ selectProjectBtnDisabled' = SelectProjectDisabled(workflowState)

\* const response = await fetch('/api/analyze-fields', ...)
AfUpload(i) ==
    /\ UNCH_started
    /\ At(i, "af_upload")
    /\ \E out \in {"ok", "httpError", "networkError"} :
         IF out = "ok"
         THEN Goto(i, "af_uploadJson") /\ UNCHANGED selectProjectBtnDisabled
         ELSE AnalyzeFinish(i, out)
    /\ UNCHANGED <<formFields, analyzedFields, selectedProject, workflowState,
                   autofillProgress, detectUi, timerPending, projectItems,
                   unhandled>>
    /\ UNCH_page

\* const result = await response.json()
AfUploadJson(i) ==
    /\ UNCH_started
    /\ At(i, "af_uploadJson")
    /\ \E out \in {"ok", "badJson"} : AnalyzeFinish(i, out)
    /\ UNCHANGED <<formFields, analyzedFields, selectedProject, workflowState,
                   autofillProgress, detectUi, timerPending, projectItems,
                   unhandled>>
    /\ UNCH_page

\* --------------------------------------------------- showProjectSelection
\* A click on Select Project (a disabled button fires no click event).
ClickSelectProject ==
    /\ ~selectProjectBtnDisabled
    /\ Start("showProjectSelection", "sp_fetch", NoRequest)
    /\ UNCHANGED <<formFields, workflow, autofillProgress, detectUi,
                   timerPending, projectItems, unhandled>>
    /\ UNCH_page

ProjectsCatch(i) ==
    Done(i, [tasks[i] EXCEPT !.alert = "Failed to load projects",
                             !.failed = "projects"])

\* fetchProjects: const response = await fetch('/api/projects')
SpFetch(i) ==
    /\ UNCH_started
    /\ At(i, "sp_fetch")
    /\ \E out \in {"ok", "httpError", "networkError"} :
         IF out = "ok" THEN Goto(i, "sp_json") ELSE ProjectsCatch(i)
    /\ UNCHANGED <<formFields, workflow, autofillProgress, detectUi,
                   timerPending, projectItems, unhandled>>
    /\ UNCH_page

\* fetchProjects: const projects = await response.json(), then the list is
\* rendered and each item gets its click handler.
SpJson(i) ==
    /\ UNCH_started
    /\ At(i, "sp_json")
    /\ \/ ProjectsCatch(i) /\ UNCHANGED projectItems
       \/ \E ps \in ProjectLists :
            /\ projectItems' = ps
            /\ Done(i, tasks[i])
    /\ UNCHANGED <<formFields, workflow, autofillProgress, detectUi,
                   timerPending, unhandled>>
    /\ UNCH_page

\* ------------------------------------------- selectProject / startAutoFill
\* startAutoFill's catch block: hideAutoFillProgress(), alert.
AutoFillCatch(i, t) ==
    /\ Done(i, [t EXCEPT !.alert = "Auto-fill failed"])
    /\ autofillProgress' = ProgressAfterCatch

\* startAutoFill once applyFieldValues has returned: hideAutoFillProgress(),
\* alert('Form auto-filled successfully!').
AutoFillSuccess(i, t) ==
    /\ Done(i, [t EXCEPT !.alert = "Form auto-filled successfully"])
    /\ autofillProgress' = FALSE

\* A click on a rendered project item: selectProject(project), which ends by
\* calling startAutoFill() up to its `await fetch('/api/auto-fill')`.
ClickProject(p) ==
    /\ p \in projectItems
    /\ selectedProject' = p
    /\ workflowState' = [workflowState EXCEPT !.projectSelected = TRUE]
    /\ selectProjectBtnDisabled' = SelectProjectDisabled(workflowState')
    /\ autofillProgress' = TRUE
    /\ Start("startAutoFill", "sa_fetch", [fields |-> analyzedFields, project |-> p])
    /\ UNCHANGED <<formFields, analyzedFields, detectUi, timerPending,
                   projectItems, unhandled>>
    /\ UNCH_page

\* const response = await fetch('/api/auto-fill', ...)
SaFetch(i) ==
    /\ UNCH_started
    /\ At(i, "sa_fetch")
    /\ \E out \in {"ok", "httpError", "networkError"} :
         IF out = "ok"
         THEN Goto(i, "sa_json") /\ UNCHANGED autofillProgress
         ELSE AutoFillCatch(i, [tasks[i] EXCEPT !.failed = "mapping"])
    /\ UNCHANGED <<formFields, workflow, detectUi, timerPending, projectItems,
                   unhandled>>
    /\ UNCH_page

\* const result = await response.json(), then applyFieldValues up to its
\* `await chrome.tabs.query`.
SaJson(i) ==
    /\ UNCH_started
    /\ At(i, "sa_json")
    /\ \/ AutoFillCatch(i, [tasks[i] EXCEPT !.failed = "mapping"])
       \/ \E fv \in FieldValuesOf(tasks[i].req) :
            /\ tasks' = [tasks EXCEPT ![i].fv = fv, ![i].pc = "av_tabs",
                                      ![i].emptyMap = (~fv.present \/ fv.keys = {})]
            /\ UNCHANGED autofillProgress
    /\ UNCHANGED <<formFields, workflow, detectUi, timerPending, projectItems,
                   unhandled>>
    /\ UNCH_page

\* applyFieldValues: const tabs = await chrome.tabs.query(...); no tab returns
\* silently, a rejection is rethrown into startAutoFill's catch block.
AvTabs(i) ==
    /\ UNCH_started
    /\ At(i, "av_tabs")
    /\ \E out \in {"reject", "none", "tab"} :
         CASE out = "tab"    -> Goto(i, "fm_tabs") /\ UNCHANGED autofillProgress
           [] out = "none"   -> AutoFillSuccess(i, tasks[i])
           [] out = "reject" -> AutoFillCatch(i, [tasks[i] EXCEPT !.failed = "apply"])
    /\ UNCHANGED <<formFields, workflow, detectUi, timerPending, projectItems,
                   unhandled>>
    /\ UNCH_page

\* The caller's code once fillFormsWithMappings has returned.
FillReturn(i, t) ==
    IF t.op = "startAutoFill"
    THEN AutoFillSuccess(i, t)
    ELSE Done(i, t) /\ UNCHANGED autofillProgress

\* fillFormsWithMappings: const tabs = await chrome.tabs.query(...); its catch
\* block logs and returns.
FmTabs(i) ==
    /\ UNCH_started
    /\ At(i, "fm_tabs")
    /\ \E out \in {"reject", "none", "tab"} :
         IF out = "tab"
         THEN Goto(i, "fm_inject") /\ UNCHANGED autofillProgress
         ELSE FillReturn(i, tasks[i])
    /\ UNCHANGED <<formFields, workflow, detectUi, timerPending, projectItems,
                   unhandled>>
    /\ UNCH_page

\* fillFormsWithMappings: await chrome.scripting.executeScript({func, args:
\* [mappings]}).  With mappings undefined Object.entries throws in the page;
\* that and a failed injection end in the catch block, which logs and returns.
FmInject(i) ==
    /\ UNCH_started
    /\ At(i, "fm_inject")
    /\ \E out \in {"reject", "ran"} :
         IF out = "ran" /\ tasks[i].fv.present
         THEN /\ applied' = tasks[i].fv.from
              /\ FillReturn(i, [tasks[i] EXCEPT !.ran = TRUE])
         ELSE /\ UNCHANGED applied
              /\ FillReturn(i, tasks[i])
    /\ UNCHANGED <<formFields, workflow, detectUi, timerPending, projectItems,
                   unhandled, sampleFills, pageVars, lastResponse>>

\* ------------------------------------------------------------------- Spec
Step(i) ==
    \/ AfTabs(i)
    \/ DfTabs(i)
    \/ DfDetectMsg(i)
    \/ DfFieldsMsg(i)
    \/ DfInject(i)
    \/ AfUpload(i)
    \/ AfUploadJson(i)
    \/ SpFetch(i)
    \/ SpJson(i)
    \/ SaFetch(i)
    \/ SaJson(i)
    \/ AvTabs(i)
    \/ FmTabs(i)
    \/ FmInject(i)

Next ==
    \/ ClickAnalyzeFields
    \/ ClickSelectProject
    \/ \E p \in Projects : ClickProject(p)
    \/ \E i \in Ops : Step(i)

Spec == Init /\ [][Next]_vars

\* ------------------------------------------------ the Detect / Fill sidebar
\* Mappings getLLMFieldMappings can return for the detected fields: {} when the
\* request or the parsing failed, else one value per field id.
LlmMappings(fields) ==
    { [present |-> TRUE, keys |-> {}, from |-> "documents"],
      [present |-> TRUE, keys |-> {fields[k].id : k \in DOMAIN fields},
       from |-> "documents"] }

\* init(): startFormDetection() arms setTimeout(() => this.detectForms(), 1000);
\* whether #fillFormsBtn starts disabled is the markup's choice.
InitLegacy ==
    /\ formFields = <<>>
    /\ analyzedFields = NullFields
    /\ selectedProject = "null"
    /\ workflowState = [fieldsAnalyzed |-> FALSE, projectSelected |-> FALSE]
    /\ selectProjectBtnDisabled = TRUE
    /\ autofillProgress = FALSE
    /\ noForms = "hidden"
    /\ fillFormsBtnDisabled \in BOOLEAN
    /\ detectFormsBtnDisabled = FALSE
    /\ timerPending = TRUE
    /\ projectItems = {}
    /\ tasks = [i \in Ops |-> NoTask]
    /\ started = 0
    /\ applied = NothingApplied
    /\ sampleFills = FALSE
    /\ unhandled = FALSE
    /\ lastResponse = NoResponse
    /\ PageIdle

\* The timer of startFormDetection fires: detectForms() up to its first await.
TimerDetect ==
    /\ timerPending
    /\ timerPending' = FALSE
    /\ Start("detectForms", "df_tabs", NoRequest)
    /\ EnterDetect
    /\ UNCHANGED <<formFields, workflow, autofillProgress, noForms,
                   fillFormsBtnDisabled, projectItems, unhandled>>
    /\ UNCH_page

\* A click on Detect Forms.
ClickDetectForms ==
    /\ ~detectFormsBtnDisabled
    /\ Start("detectForms", "df_tabs", NoRequest)
    /\ EnterDetect
    /\ UNCHANGED <<formFields, workflow, autofillProgress, noForms,
                   fillFormsBtnDisabled, timerPending, projectItems, unhandled>>
    /\ UNCH_page

\* A click on Auto Fill: autoFillForms() up to its first await, which is
\* detectForms() when no field is held and getExtractedDocumentText() otherwise.
ClickFillForms ==
    /\ ~fillFormsBtnDisabled
    /\ IF Len(formFields) = 0
       THEN Start("autoFillForms", "df_tabs", NoRequest) /\ EnterDetect
       ELSE Start("autoFillForms", "al_doc", NoRequest)
              /\ UNCHANGED detectFormsBtnDisabled
    /\ UNCHANGED <<formFields, workflow, autofillProgress, noForms,
                   fillFormsBtnDisabled, timerPending, projectItems, unhandled>>
    /\ UNCH_page

\* const documentText = await this.getExtractedDocumentText(): null (no token,
\* no project, any failure: it catches everything) or the extracted text.
AlDoc(i) ==
    /\ UNCH_started
    /\ At(i, "al_doc")
    /\ \E out \in {"null", "text"} :
         IF out = "null"
         THEN Done(i, [tasks[i] EXCEPT !.alert = "No documents found"])
         ELSE Goto(i, "al_llm")
    /\ UNCHANGED <<formFields, workflow, autofillProgress, detectUi,
                   timerPending, projectItems, unhandled>>
    /\ UNCH_page

\* const fieldMappings = await this.getLLMFieldMappings(this.formFields, ...):
\* an empty map starts autoFillWithSampleData(), else fillFormsWithMappings().
AlLlm(i) ==
    /\ UNCH_started
    /\ At(i, "al_llm")
    /\ \E fv \in LlmMappings(formFields) :
         tasks' = [tasks EXCEPT ![i].fv = fv,
                                ![i].emptyMap = (fv.keys = {}),
                                ![i].pc = IF fv.keys = {} THEN "sd_tabs" ELSE "fm_tabs"]
    /\ UNCHANGED <<formFields, workflow, autofillProgress, detectUi,
                   timerPending, projectItems, unhandled>>
    /\ UNCH_page

\* A rejection of an await inside autoFillWithSampleData(): thrown from the try
\* block it lands in autoFillForms' catch block, which awaits
\* autoFillWithSampleData() again; thrown from there nothing catches it and the
\* promise of autoFillForms, which the click handler does not await, rejects.
SampleReject(i) ==
    IF ~tasks[i].inCatch
    THEN /\ tasks' = [tasks EXCEPT ![i].inCatch = TRUE, ![i].pc = "sd_tabs"]
         /\ UNCHANGED unhandled
    ELSE /\ Done(i, [tasks[i] EXCEPT !.failed = "sample data"])
         /\ unhandled' = TRUE

\* autoFillWithSampleData: const tabs = await chrome.tabs.query(...)
SdTabs(i) ==
    /\ UNCH_started
    /\ At(i, "sd_tabs")
    /\ \E out \in {"reject", "none", "tab"} :
         CASE out = "tab"    -> Goto(i, "sd_inject") /\ UNCHANGED unhandled
           [] out = "none"   -> Done(i, tasks[i]) /\ UNCHANGED unhandled
           [] out = "reject" -> SampleReject(i)
    /\ UNCHANGED <<formFields, workflow, autofillProgress, detectUi,
                   timerPending, projectItems>>
    /\ UNCH_page

\* autoFillWithSampleData: await chrome.scripting.executeScript({func:
\* this.fillFormsOnPage, args: [sampleData]})
SdInject(i) ==
    /\ UNCH_started
    /\ At(i, "sd_inject")
    /\ \/ SampleReject(i) /\ UNCHANGED sampleFills
       \/ /\ sampleFills' = TRUE
          /\ Done(i, [tasks[i] EXCEPT !.ran = TRUE])
          /\ UNCHANGED unhandled
    /\ UNCHANGED <<formFields, workflow, autofillProgress, detectUi,
                   timerPending, projectItems, applied, pageVars, lastResponse>>

StepLegacy(i) ==
    \/ DfTabs(i)
    \/ DfDetectMsg(i)
    \/ DfFieldsMsg(i)
    \/ DfInject(i)
    \/ AlDoc(i)
    \/ AlLlm(i)
    \/ SdTabs(i)
    \/ SdInject(i)
    \/ FmTabs(i)
    \/ FmInject(i)

NextLegacy ==
    \/ TimerDetect
    \/ ClickDetectForms
    \/ ClickFillForms
    \/ \E i \in Ops : StepLegacy(i)

SpecLegacy == InitLegacy /\ [][NextLegacy]_vars

\* The same sidebar in a session that only detects: the timer of
\* startFormDetection and clicks on Detect Forms.
StepPasses(i) ==
    \/ DfTabs(i)
    \/ DfDetectMsg(i)
    \/ DfFieldsMsg(i)
    \/ DfInject(i)

NextPasses ==
    \/ TimerDetect
    \/ ClickDetectForms
    \/ \E i \in Ops : StepPasses(i)

SpecPasses == InitLegacy /\ [][NextPasses]_vars

\* ------------------------------------------------- the document under scan
\* A document is its controls (input, select, textarea) in document order.
\* form is the <form> a control sits in, 0 outside any form; the controls of a
\* form are consecutive and the forms follow each other in document order, as
\* in a parsed document (forms do not nest).
Forms == {1, 2}

ControlKinds ==
    {[type |-> "text",  name |-> "",  disabled |-> FALSE, visible |-> TRUE],
     [type |-> "text",  name |-> "",  disabled |-> TRUE,  visible |-> TRUE],
     [type |-> "text",  name |-> "",  disabled |-> FALSE, visible |-> FALSE],
     [type |-> "radio", name |-> "",  disabled |-> FALSE, visible |-> TRUE],
     [type |-> "radio", name |-> "g", disabled |-> FALSE, visible |-> TRUE],
     [type |-> "radio", name |-> "g", disabled |-> TRUE,  visible |-> TRUE],
     [type |-> "radio", name |-> "g", disabled |-> FALSE, visible |-> FALSE]}

\* Beside the attributes the passes branch on, a control carries its id, its value and
\* checked properties, its required attribute, the caption the label lookup
\* finds for it (label), the caption found above a radio group that starts
\* with it (legend), and the keywords of the classifier's table that occur in
\* its lower-cased name, id, placeholder and label.
Controls ==
    {[type |-> k.type, id |-> "", name |-> k.name, disabled |-> k.disabled,
      visible |-> k.visible, form |-> f, checked |-> FALSE, value |-> "",
      required |-> FALSE, label |-> "", legend |-> "", keywords |-> {}]
        : k \in ControlKinds, f \in {0} \cup Forms}

WellFormed(d) ==
    \A i, j \in DOMAIN d :
        (i < j /\ d[i].form # 0) =>
            /\ d[j].form # 0 => d[i].form <= d[j].form
            /\ d[j].form = d[i].form => \A k \in i..j : d[k].form = d[i].form

Documents ==
    {d \in UNION {[1..n -> Controls] : n \in 0..MaxControls} : WellFormed(d)}

\* The elements matching the container selector of detectFieldsInContainers,
\* in document order, each as the range of controls inside it: none, or one
\* around the whole document with a second nested around the first control.
ContainerChoices(d) ==
    IF Len(d) = 0 THEN {<<>>}
    ELSE {<<>>, <<[lo |-> 1, hi |-> Len(d)], [lo |-> 1, hi |-> 1]>>}

\* querySelectorAll: the matching controls in document order.
RECURSIVE Ascending(_)
Ascending(S) ==
    IF S = {} THEN <<>>
    ELSE LET m == CHOOSE x \in S : \A y \in S : x <= y
         IN  <<m>> \o Ascending(S \ {m})

RECURSIVE Flatten(_)
Flatten(ss) == IF ss = <<>> THEN <<>> ELSE Head(ss) \o Flatten(Tail(ss))

\* ------------------------------------------------- FormAssistant (content.js)
SkippedTypes == {"hidden", "submit", "button", "image", "reset"}

isElementVisible(k) == dom[k].visible

\* The characters of the strings the model measures or compares by content.
Chars(s) ==
    CASE s = ""       -> <<>>
      [] s = "Nr"     -> <<"N", "r">>
      [] s = "Qty"    -> <<"Q", "t", "y">>
      [] s = "Name"   -> <<"N", "a", "m", "e">>
      [] s = "Sun"    -> <<"S", "u", "n">>
      [] s = "No Sun" -> <<"N", "o", " ", "S", "u", "n">>
      [] s = "sun"    -> <<"s", "u", "n">>
      [] s = "N/A"    -> <<"N", "/", "A">>
      [] s = "cn"     -> <<"c", "n">>
      [] s = "zz"     -> <<"z", "z">>
      [] s = "q\""    -> <<"q", "\"">>
      [] s = "name" -> <<"n", "a", "m", "e">>
      [] s = "applicant" -> <<"a", "p", "p", "l", "i", "c", "a", "n", "t">>
      [] s = "owner" -> <<"o", "w", "n", "e", "r">>
      [] s = "contractor" -> <<"c", "o", "n", "t", "r", "a", "c", "t", "o", "r">>
      [] s = "first" -> <<"f", "i", "r", "s", "t">>
      [] s = "last" -> <<"l", "a", "s", "t">>
      [] s = "full" -> <<"f", "u", "l", "l">>
      [] s = "email" -> <<"e", "m", "a", "i", "l">>
      [] s = "e-mail" -> <<"e", "-", "m", "a", "i", "l">>
      [] s = "mail" -> <<"m", "a", "i", "l">>
      [] s = "phone" -> <<"p", "h", "o", "n", "e">>
      [] s = "telephone" -> <<"t", "e", "l", "e", "p", "h", "o", "n", "e">>
      [] s = "mobile" -> <<"m", "o", "b", "i", "l", "e">>
      [] s = "cell" -> <<"c", "e", "l", "l">>
      [] s = "tel" -> <<"t", "e", "l">>
      [] s = "address" -> <<"a", "d", "d", "r", "e", "s", "s">>
      [] s = "street" -> <<"s", "t", "r", "e", "e", "t">>
      [] s = "location" -> <<"l", "o", "c", "a", "t", "i", "o", "n">>
      [] s = "addr" -> <<"a", "d", "d", "r">>
      [] s = "city" -> <<"c", "i", "t", "y">>
      [] s = "municipality" -> <<"m", "u", "n", "i", "c", "i", "p", "a", "l", "i", "t", "y">>
      [] s = "town" -> <<"t", "o", "w", "n">>
      [] s = "state" -> <<"s", "t", "a", "t", "e">>
      [] s = "province" -> <<"p", "r", "o", "v", "i", "n", "c", "e">>
      [] s = "region" -> <<"r", "e", "g", "i", "o", "n">>
      [] s = "zip" -> <<"z", "i", "p">>
      [] s = "postal" -> <<"p", "o", "s", "t", "a", "l">>
      [] s = "zipcode" -> <<"z", "i", "p", "c", "o", "d", "e">>
      [] s = "postcode" -> <<"p", "o", "s", "t", "c", "o", "d", "e">>
      [] s = "date" -> <<"d", "a", "t", "e">>
      [] s = "when" -> <<"w", "h", "e", "n">>
      [] s = "time" -> <<"t", "i", "m", "e">>
      [] s = "birth" -> <<"b", "i", "r", "t", "h">>
      [] s = "dob" -> <<"d", "o", "b">>
      [] s = "description" -> <<"d", "e", "s", "c", "r", "i", "p", "t", "i", "o", "n">>
      [] s = "details" -> <<"d", "e", "t", "a", "i", "l", "s">>
      [] s = "notes" -> <<"n", "o", "t", "e", "s">>
      [] s = "comments" -> <<"c", "o", "m", "m", "e", "n", "t", "s">>
      [] s = "message" -> <<"m", "e", "s", "s", "a", "g", "e">>
      [] s = "value" -> <<"v", "a", "l", "u", "e">>
      [] s = "cost" -> <<"c", "o", "s", "t">>
      [] s = "amount" -> <<"a", "m", "o", "u", "n", "t">>
      [] s = "price" -> <<"p", "r", "i", "c", "e">>
      [] s = "$" -> <<"$">>
      [] s = "fee" -> <<"f", "e", "e">>
      [] s = "area" -> <<"a", "r", "e", "a">>
      [] s = "square" -> <<"s", "q", "u", "a", "r", "e">>
      [] s = "sqft" -> <<"s", "q", "f", "t">>
      [] s = "size" -> <<"s", "i", "z", "e">>
      [] s = "footage" -> <<"f", "o", "o", "t", "a", "g", "e">>
      [] s = "permit_type" -> <<"p", "e", "r", "m", "i", "t", "_", "t", "y", "p", "e">>
      [] s = "permit" -> <<"p", "e", "r", "m", "i", "t">>
      [] s = "type" -> <<"t", "y", "p", "e">>
      [] s = "category" -> <<"c", "a", "t", "e", "g", "o", "r", "y">>
      [] s = "kind" -> <<"k", "i", "n", "d">>
      [] s = "project_description" -> <<"p", "r", "o", "j", "e", "c", "t", "_", "d", "e", "s", "c", "r", "i", "p", "t", "i", "o", "n">>
      [] s = "project" -> <<"p", "r", "o", "j", "e", "c", "t">>
      [] s = "work" -> <<"w", "o", "r", "k">>
      [] s = "scope" -> <<"s", "c", "o", "p", "e">>
      [] s = "construction" -> <<"c", "o", "n", "s", "t", "r", "u", "c", "t", "i", "o", "n">>
      [] s = "company" -> <<"c", "o", "m", "p", "a", "n", "y">>
      [] s = "business" -> <<"b", "u", "s", "i", "n", "e", "s", "s">>
      [] s = "organization" -> <<"o", "r", "g", "a", "n", "i", "z", "a", "t", "i", "o", "n">>
      [] s = "firm" -> <<"f", "i", "r", "m">>
      [] s = "title" -> <<"t", "i", "t", "l", "e">>
      [] s = "position" -> <<"p", "o", "s", "i", "t", "i", "o", "n">>
      [] s = "job" -> <<"j", "o", "b">>
      [] s = "website" -> <<"w", "e", "b", "s", "i", "t", "e">>
      [] s = "url" -> <<"u", "r", "l">>
      [] s = "site" -> <<"s", "i", "t", "e">>
      [] s = "web" -> <<"w", "e", "b">>
      [] s = "password" -> <<"p", "a", "s", "s", "w", "o", "r", "d">>
      [] s = "pass" -> <<"p", "a", "s", "s">>
      [] s = "pwd" -> <<"p", "w", "d">>
      [] s = "username" -> <<"u", "s", "e", "r", "n", "a", "m", "e">>
      [] s = "user" -> <<"u", "s", "e", "r">>
      [] s = "login" -> <<"l", "o", "g", "i", "n">>
      [] s = "number" -> <<"n", "u", "m", "b", "e", "r">>
      [] s = "num" -> <<"n", "u", "m">>
      [] s = "id" -> <<"i", "d">>
      [] s = "reference" -> <<"r", "e", "f", "e", "r", "e", "n", "c", "e">>
      [] s = "checkbox" -> <<"c", "h", "e", "c", "k", "b", "o", "x">>
      [] s = "agree" -> <<"a", "g", "r", "e", "e">>
      [] s = "accept" -> <<"a", "c", "c", "e", "p", "t">>
      [] s = "confirm" -> <<"c", "o", "n", "f", "i", "r", "m">>
      [] s = "check" -> <<"c", "h", "e", "c", "k">>
      [] s = "radio" -> <<"r", "a", "d", "i", "o">>
      [] s = "select" -> <<"s", "e", "l", "e", "c", "t">>
      [] s = "choose" -> <<"c", "h", "o", "o", "s", "e">>
      [] s = "option" -> <<"o", "p", "t", "i", "o", "n">>
      [] s = "email_name" -> <<"e", "m", "a", "i", "l", "_", "n", "a", "m", "e">>
      [] s = "userid" -> <<"u", "s", "e", "r", "i", "d">>
      [] s = "PhoneNumber" -> <<"P", "h", "o", "n", "e", "N", "u", "m", "b", "e", "r">>
      [] s = "addr1" -> <<"a", "d", "d", "r", "1">>
      [] s = "Enter URL" -> <<"E", "n", "t", "e", "r", " ", "U", "R", "L">>
      [] s = "Fee $:" -> <<"F", "e", "e", " ", "$", ":">>
      [] s = "E-Mail *" -> <<"E", "-", "M", "a", "i", "l", " ", "*">>
      [] s = "Full Name" -> <<"F", "u", "l", "l", " ", "N", "a", "m", "e">>
      [] s = "undefined" -> <<"u", "n", "d", "e", "f", "i", "n", "e", "d">>
      [] s \in {"a", "b", "g", "n", "v", "x", "5", "$"} -> <<s>>

\* getFieldLabel(element), the caption the lookup ends with.
getFieldLabel(k) == dom[k].label

\* classifyField: the input type first, then the first entry of the keyword
\* table, in the table's order, with a keyword in the element's text.
fieldTypes ==
    << <<"name", {"name", "applicant", "owner", "contractor", "first", "last", "full"}>>,
       <<"email", {"email", "e-mail", "mail"}>>,
       <<"phone", {"phone", "telephone", "mobile", "cell", "tel"}>>,
       <<"address", {"address", "street", "location", "addr"}>>,
       <<"city", {"city", "municipality", "town"}>>,
       <<"state", {"state", "province", "region"}>>,
       <<"zip", {"zip", "postal", "zipcode", "postcode"}>>,
       <<"date", {"date", "when", "time", "birth", "dob"}>>,
       <<"description", {"description", "details", "notes", "comments", "message"}>>,
       <<"value", {"value", "cost", "amount", "price", "$", "fee"}>>,
       <<"area", {"area", "square", "sqft", "size", "footage"}>>,
       <<"permit_type", {"permit", "type", "category", "kind"}>>,
       <<"project_description", {"project", "work", "scope", "construction"}>>,
       <<"company", {"company", "business", "organization", "firm"}>>,
       <<"title", {"title", "position", "job"}>>,
       <<"website", {"website", "url", "site", "web"}>>,
       <<"password", {"password", "pass", "pwd"}>>,
       <<"username", {"username", "user", "login"}>>,
       <<"number", {"number", "num", "id", "reference"}>>,
       <<"checkbox", {"agree", "accept", "confirm", "check"}>>,
       <<"radio", {"select", "choose", "option"}>> >>

classifyField(k) ==
    CASE dom[k].type = "email"  -> "email"
      [] dom[k].type = "tel"    -> "phone"
      [] dom[k].type = "date"   -> "date"
      [] dom[k].type = "number" -> "number"
      [] dom[k].type = "url"    -> "url"
      [] OTHER ->
           LET hits == {e \in DOMAIN fieldTypes :
                           fieldTypes[e][2] \cap dom[k].keywords # {}}
           IN  IF hits = {} THEN "unknown"
               ELSE fieldTypes[CHOOSE e \in hits : \A x \in hits : e <= x][1]

\* calculateConfidence, in tenths: 0.5 for a known field type, 0.2 for a
\* required field, 0.3 for a label of more than two characters, at most 1.0.
calculateConfidenceMutant(fieldInfo) ==
    LET confidence ==
            (IF fieldInfo.fieldType # "unknown" THEN 5 ELSE 0)
          + (IF fieldInfo.required THEN 5 ELSE 0)
          + (IF Len(Chars(fieldInfo.label)) > 2 THEN 3 ELSE 0)
    IN  IF confidence < 10 THEN confidence ELSE 10

calculateConfidence(fieldInfo) ==
    LET confidence ==
            (IF fieldInfo.fieldType # "unknown" THEN 5 ELSE 0)
          + (IF fieldInfo.required THEN 2 ELSE 0)
          + (IF Len(Chars(fieldInfo.label)) > 2 THEN 3 ELSE 0)
    IN  IF confidence < 10 THEN confidence ELSE 10

\* analyzeField: null (here <<>>) for a skipped type, a disabled or an
\* invisible element, else the field of the element.
\* formIndex is the text the caller's index reads as in the template string.
analyzeField(k, formIndex, inputIndex) ==
    IF dom[k].type \in SkippedTypes \/ dom[k].disabled \/ ~isElementVisible(k)
    THEN <<>>
    ELSE LET fieldInfo ==
                 [element |-> k,
                  id |-> IF dom[k].id # "" THEN dom[k].id
                         ELSE "form_" \o formIndex \o "_input_" \o ToString(inputIndex),
                  name |-> dom[k].name, type |-> dom[k].type,
                  label |-> getFieldLabel(k), value |-> dom[k].value,
                  required |-> dom[k].required, fieldType |-> classifyField(k),
                  confidence |-> 0, options |-> <<>>, radioButtons |-> <<>>]
         IN  <<[fieldInfo EXCEPT !.confidence = calculateConfidence(fieldInfo)]>>

VisibleRadio(k) == ~dom[k].disabled /\ isElementVisible(k)

\* analyzeRadioGroup: null when no radio of the group is enabled and visible.
\* visibleRadios.find(r => r.checked)?.value || ''
CheckedValueMutant(radios) ==
    IF radios = <<>> THEN "" ELSE dom[radios[1]].value

CheckedValue(radios) ==
    LET checked == SelectSeq(radios, LAMBDA k : dom[k].checked)
    IN  IF checked = <<>> THEN "" ELSE dom[checked[1]].value

\* radio => ({value, label, checked, element})
RadioOptions(radios) ==
    [i \in DOMAIN radios |->
        [value |-> dom[radios[i]].value,
         label |-> IF getFieldLabel(radios[i]) # "" THEN getFieldLabel(radios[i])
                   ELSE dom[radios[i]].value,
         checked |-> dom[radios[i]].checked,
         element |-> radios[i]]]

\* getRadioGroupLabel(radioButtons): the caption above the first radio, or null
\* (here "").
getRadioGroupLabel(radios) == dom[radios[1]].legend

analyzeRadioGroup(radioButtons, groupName) ==
    LET visibleRadios == SelectSeq(radioButtons, VisibleRadio)
    IN  IF visibleRadios = <<>> THEN <<>>
        ELSE LET firstRadio == visibleRadios[1]
                 fieldInfo ==
                     [element |-> firstRadio, id |-> groupName,
                      name |-> groupName, type |-> "radio-group",
                      label |-> IF getRadioGroupLabel(visibleRadios) # ""
                                THEN getRadioGroupLabel(visibleRadios)
                                ELSE getFieldLabel(firstRadio),
                      value |-> CheckedValue(visibleRadios),
                      required |-> \E i \in DOMAIN visibleRadios :
                                      dom[visibleRadios[i]].required,
                      fieldType |-> "radio", confidence |-> 0,
                      options |-> RadioOptions(visibleRadios),
                      radioButtons |-> visibleRadios]
             IN  <<[fieldInfo EXCEPT !.confidence = calculateConfidence(fieldInfo)]>>

\* if (input.type === 'radio' && input.name)
GroupedRadio(k) == dom[k].type = "radio" /\ dom[k].name # ""

\* The else branch of that test: the inputs handed to analyzeField.
AnalyzedAloneMutant(k) == TRUE

AnalyzedAlone(k) == ~GroupedRadio(k)

\* The keys of the radioGroups Map, in insertion order.
RECURSIVE GroupNames(_, _)
GroupNames(inputs, seen) ==
    IF inputs = <<>> THEN <<>>
    ELSE LET n == dom[Head(inputs)].name
         IN  IF n \in seen THEN GroupNames(Tail(inputs), seen)
             ELSE <<n>> \o GroupNames(Tail(inputs), seen \cup {n})

alreadyDetectedMutant(fields, k) == FALSE

alreadyDetected(fields, k) ==
    \E n \in DOMAIN fields :
        IF fields[n].type = "radio-group"
        THEN \E m \in DOMAIN fields[n].radioButtons : fields[n].radioButtons[m] = k
        ELSE fields[n].element = k

\* The loop shared by analyzeForm, detectStandaloneFields and
\* detectFieldsInContainers: the fields of the inputs analysed alone, in input
\* order and with their index among the inputs, then one field per radio
\* group, in the Map's order.  fields holds what detectFieldsInContainers tests
\* an input against (nothing in the two other passes): a field pushed inside
\* the loop is the field of the input at hand, so testing the inputs against
\* the fields at the loop's start is the same test.
ScanInputs(inputs, formIndex, fields) ==
    LET fresh(k) == ~alreadyDetected(fields, k)
        grouped  == SelectSeq(inputs, LAMBDA k : fresh(k) /\ GroupedRadio(k))
        names    == GroupNames(grouped, {})
        Named(n) == SelectSeq(grouped, LAMBDA k : dom[k].name = n)
    IN  Flatten([i \in 1..Len(inputs) |->
                    IF fresh(inputs[i]) /\ AnalyzedAlone(inputs[i])
                    THEN analyzeField(inputs[i], formIndex, i - 1)
                    ELSE <<>>])
        \o Flatten([n \in 1..Len(names) |->
                    analyzeRadioGroup(Named(names[n]), names[n])])

analyzeForm(f) ==
    ScanInputs(Ascending({k \in DOMAIN dom : dom[k].form = f}), ToString(f - 1), <<>>)

detectStandaloneFields ==
    ScanInputs(Ascending({k \in DOMAIN dom : dom[k].form = 0}), "-1", <<>>)

\* detectFieldsInContainers from the c-th container on.
RECURSIVE detectFieldsInContainers(_, _)
detectFieldsInContainers(fields, c) ==
    IF c > Len(containers) THEN fields
    ELSE LET inputs == Ascending(containers[c].lo .. containers[c].hi)
         IN  detectFieldsInContainers(
                 fields \o ScanInputs(inputs, "container_" \o ToString(c - 1), fields),
                 c + 1)

\* this.detectedFields = [] at the head of detectForms.
ClearedFieldsMutant == detectedFields

ClearedFields == <<>>

\* FormAssistant.detectForms: the three passes over the document, each pushing
\* to this.detectedFields.
detectForms ==
    detectFieldsInContainers(
        ClearedFields
            \o Flatten([f \in 1..Cardinality(Forms) |-> analyzeForm(f)])
            \o detectStandaloneFields,
        1)

ContentDetect ==
    /\ detectedFields' = detectForms
    /\ UNCHANGED <<sidebarVars, dom, containers, injectedFields, simpleFields,
                   applierVars, labelVars, scriptVars, logVars>>

\* ------------------------------- detectFormsOnPage (injected by the sidebar)
\* input.id || `field_${index}`
InjectedId(k) ==
    IF dom[k].id # "" THEN dom[k].id ELSE "field_" \o ToString(k - 1)

\* input.name || input.id || `field_${index}`
InjectedName(k) ==
    IF dom[k].name # "" THEN dom[k].name ELSE InjectedId(k)

\* The injected getFieldLabel: the caption found for the input, without the
\* clean-up of the content script's, else input.placeholder || input.name ||
\* 'Unknown Field' (the controls carry no placeholder).
InjectedLabel(k) ==
    IF dom[k].label # "" THEN dom[k].label
    ELSE IF dom[k].name # "" THEN dom[k].name
    ELSE "Unknown Field"

\* The if / else-if chain that classifies an injected field.
InjectedFieldType(k) ==
    LET has(keyword) == keyword \in dom[k].keywords
    IN  CASE dom[k].type = "email" \/ has("email") -> "email"
          [] dom[k].type = "tel" \/ has("phone") \/ has("tel") -> "phone"
          [] dom[k].type = "date" \/ has("date") -> "date"
          [] has("name") -> "name"
          [] has("address") -> "address"
          [] has("city") -> "city"
          [] has("state") -> "state"
          [] has("zip") \/ has("postal") -> "zip"
          [] OTHER -> "unknown"

\* The injected fields carry no element; element and radioButtons record the
\* control behind a field and the controls behind a group's options.
detectFormsOnPage ==
    LET kept == SelectSeq(Ascending(DOMAIN dom),
                          LAMBDA k : ~(\/ dom[k].type \in SkippedTypes
                                       \/ dom[k].disabled
                                       \/ ~isElementVisible(k)))
        grouped == SelectSeq(kept, GroupedRadio)
        names   == GroupNames(grouped, {})
        Group(n) ==
            LET visibleRadios ==
                    SelectSeq(grouped,
                              LAMBDA k : dom[k].name = n /\ isElementVisible(k))
            IN  IF visibleRadios = <<>> THEN <<>>
                ELSE <<[element |-> visibleRadios[1], id |-> n, name |-> n,
                        type |-> "radio-group",
                        label |-> IF getRadioGroupLabel(visibleRadios) # ""
                                  THEN getRadioGroupLabel(visibleRadios)
                                  ELSE InjectedLabel(visibleRadios[1]),
                        fieldType |-> "radio",
                        value |-> CheckedValue(visibleRadios),
                        required |-> \E i \in DOMAIN visibleRadios :
                                        dom[visibleRadios[i]].required,
                        options |-> RadioOptions(visibleRadios),
                        radioButtons |-> visibleRadios]>>
    IN  Flatten([i \in 1..Len(kept) |->
                    IF GroupedRadio(kept[i]) THEN <<>>
                    ELSE <<[element |-> kept[i], id |-> InjectedId(kept[i]),
                            name |-> InjectedName(kept[i]),
                            type |-> dom[kept[i]].type,
                            label |-> InjectedLabel(kept[i]),
                            fieldType |-> InjectedFieldType(kept[i]),
                            value |-> dom[kept[i]].value,
                            required |-> dom[kept[i]].required,
                            options |-> <<>>, radioButtons |-> <<>>]>>])
        \o Flatten([n \in 1..Len(names) |-> Group(names[n])])

InjectedDetect ==
    /\ injectedFields' = detectFormsOnPage
    /\ UNCHANGED <<sidebarVars, dom, containers, detectedFields, simpleFields,
                   applierVars, labelVars, scriptVars, logVars>>

InitDetect ==
    /\ SidebarInit
    /\ dom \in Documents
    /\ containers \in ContainerChoices(dom)
    /\ NothingDetected
    /\ ApplierIdle
    /\ LabelIdle
    /\ ScriptIdle
    /\ LogIdle

NextDetect ==
    \/ ContentDetect
    \/ InjectedDetect

SpecDetect == InitDetect /\ [][NextDetect]_vars

\* --------------------------- detectFormsOnPage of sidebar.js (the popup sidebar)
\* Every input whose type is not hidden, submit or button becomes a field.
SimpleDetectFormsOnPage ==
    Flatten([k \in DOMAIN dom |->
                IF dom[k].type \notin {"hidden", "submit", "button"}
                THEN <<[element |-> k, name |-> InjectedName(k),
                        type |-> dom[k].type, value |-> dom[k].value,
                        required |-> dom[k].required,
                        options |-> <<>>, radioButtons |-> <<>>]>>
                ELSE <<>>])

SimpleDetect ==
    /\ simpleFields' = SimpleDetectFormsOnPage
    /\ UNCHANGED <<sidebarVars, dom, containers, detectedFields, injectedFields,
                   applierVars, labelVars, scriptVars, logVars>>

\* ------------------------------------------- documents of one scan scope
\* Controls of the kinds the eligibility filter, the radio-group aggregator
\* and the confidence score tell apart.
Kind(type, id, name, disabled, visible, checked, value, required, label, legend, keywords) ==
    [type |-> type, id |-> id, name |-> name, disabled |-> disabled, visible |-> visible,
     checked |-> checked, value |-> value, required |-> required,
     label |-> label, legend |-> legend, keywords |-> keywords]

FieldKinds ==
    {Kind("text",   "", "",  FALSE, TRUE,  FALSE, "",  FALSE, "",     "", {}),
     Kind("text",   "", "",  FALSE, TRUE,  FALSE, "x", TRUE,  "Nr",   "", {}),
     Kind("text",   "", "",  FALSE, TRUE,  FALSE, "",  TRUE,  "Qty",  "", {}),
     Kind("text",   "", "",  FALSE, TRUE,  FALSE, "",  TRUE,  "Name", "", {"name"}),
     Kind("text",   "", "",  FALSE, TRUE,  FALSE, "",  FALSE, "Name", "", {"name"}),
     Kind("email",  "", "",  FALSE, TRUE,  FALSE, "",  TRUE,  "",     "", {}),
     Kind("text",   "", "",  TRUE,  TRUE,  FALSE, "x", TRUE,  "Name", "", {"name"}),
     Kind("text",   "", "",  FALSE, FALSE, FALSE, "x", TRUE,  "Name", "", {"name"}),
     Kind("hidden", "", "",  FALSE, TRUE,  FALSE, "x", FALSE, "",     "", {}),
     Kind("submit", "", "",  FALSE, TRUE,  FALSE, "x", FALSE, "",     "", {}),
     Kind("button", "", "",  FALSE, TRUE,  FALSE, "x", FALSE, "",     "", {}),
     Kind("image",  "", "",  FALSE, TRUE,  FALSE, "x", FALSE, "",     "", {}),
     Kind("reset",  "", "",  FALSE, TRUE,  FALSE, "x", FALSE, "",     "", {}),
     Kind("radio",  "", "g", FALSE, TRUE,  FALSE, "a", FALSE, "",     "", {}),
     Kind("radio",  "", "g", FALSE, TRUE,  TRUE,  "b", FALSE, "",     "", {}),
     Kind("radio",  "", "g", FALSE, TRUE,  TRUE,  "",  FALSE, "",     "", {}),
     Kind("radio",  "", "g", FALSE, FALSE, TRUE,  "b", FALSE, "",     "", {}),
     Kind("radio",  "", "g", TRUE,  TRUE,  TRUE,  "b", FALSE, "",     "", {}),
     Kind("radio",  "", "g", FALSE, TRUE,  FALSE, "a", TRUE,  "",     "Name", {}),
     Kind("text",   "g", "", FALSE, TRUE,  FALSE, "",  FALSE, "",     "", {})}

InScope(k, f) ==
    [type |-> k.type, id |-> k.id, name |-> k.name, disabled |-> k.disabled,
     visible |-> k.visible, form |-> f, checked |-> k.checked,
     value |-> k.value, required |-> k.required, label |-> k.label,
     legend |-> k.legend, keywords |-> k.keywords]

\* The radios of one group exclude each other: at most one of a name is checked.
OneChecked(d) ==
    \A i, j \in DOMAIN d :
        (/\ d[i].type = "radio" /\ d[j].type = "radio"
         /\ d[i].name # "" /\ d[i].name = d[j].name
         /\ d[i].checked /\ d[j].checked) => i = j

\* An id names one element of the document.
UniqueElementIds(d) ==
    \A i, j \in DOMAIN d : (d[i].id # "" /\ d[i].id = d[j].id) => i = j

\* Documents whose controls all sit in one form, or all outside any form.
ScopeDocuments ==
    {d \in UNION {[1..n -> {InScope(k, f) : k \in FieldKinds}]
                     : n \in 0..MaxFields, f \in {0, 1}} :
        OneChecked(d) /\ UniqueElementIds(d)}

InitFields ==
    /\ SidebarInit
    /\ dom \in ScopeDocuments
    /\ containers = <<>>
    /\ NothingDetected
    /\ ApplierIdle
    /\ LabelIdle
    /\ ScriptIdle
    /\ LogIdle

NextFields ==
    \/ ContentDetect
    \/ InjectedDetect
    \/ SimpleDetect

SpecFields == InitFields /\ [][NextFields]_vars

\* ------------------------- the Value Applier (fillFormsWithMappings' injected func)
\* String.prototype.toLowerCase and includes, on the characters of a string.
Lower(c) ==
    CASE c = "A" -> "a" [] c = "B" -> "b" [] c = "C" -> "c" [] c = "D" -> "d"
      [] c = "E" -> "e" [] c = "F" -> "f" [] c = "G" -> "g" [] c = "H" -> "h"
      [] c = "I" -> "i" [] c = "J" -> "j" [] c = "K" -> "k" [] c = "L" -> "l"
      [] c = "M" -> "m" [] c = "N" -> "n" [] c = "O" -> "o" [] c = "P" -> "p"
      [] c = "Q" -> "q" [] c = "R" -> "r" [] c = "S" -> "s" [] c = "T" -> "t"
      [] c = "U" -> "u" [] c = "V" -> "v" [] c = "W" -> "w" [] c = "X" -> "x"
      [] c = "Y" -> "y" [] c = "Z" -> "z"
      [] OTHER -> c

toLowerCase(s) == [i \in DOMAIN Chars(s) |-> Lower(Chars(s)[i])]

includes(a, b) ==
    \E i \in 1..(Len(a) - Len(b) + 1) : SubSeq(a, i, i + Len(b) - 1) = b

\* A key that ends the attribute value of the selector it is pasted into:
\* querySelectorAll throws a SyntaxError for it.
BreaksSelector(key) ==
    \E i \in DOMAIN Chars(key) : Chars(key)[i] \in {"\"", "\\"}

\* radio.checked = true: the other radios of the radio's group are unchecked.
CheckRadio(d, k) ==
    [j \in DOMAIN d |->
        IF j = k THEN [d[j] EXCEPT !.checked = TRUE]
        ELSE IF /\ d[j].type = "radio" /\ d[k].name # ""
                /\ d[j].name = d[k].name /\ d[j].form = d[k].form
             THEN [d[j] EXCEPT !.checked = FALSE]
             ELSE d[j]]

\* document.querySelectorAll(`input[type="radio"][name="${fieldId}"]`)
RadiosNamed(d, key) ==
    Ascending({k \in DOMAIN d : d[k].type = "radio" /\ d[k].name = key})

\* The test of the radio branch; it calls value.toLowerCase().
RadioMatches(d, k, e) ==
    LET radioLabel == IF d[k].label # "" THEN d[k].label ELSE d[k].value
    IN  \/ d[k].value = e.value
        \/ includes(toLowerCase(radioLabel), toLowerCase(e.value))
        \/ includes(toLowerCase(e.value), toLowerCase(radioLabel))

\* The radio branch over the radios from position i on: every radio that
\* matches is checked, gets a change event and is counted.
RECURSIVE MarkRadios(_, _, _, _)
MarkRadios(st, radios, i, e) ==
    IF i > Len(radios) THEN st
    ELSE IF RadioMatches(st.dom, radios[i], e)
         THEN MarkRadios(
                  [st EXCEPT !.dom = CheckRadio(st.dom, radios[i]),
                             !.events = Append(@, [target |-> radios[i],
                                                   type |-> "change"]),
                             !.filled = @ + 1],
                  radios, i + 1, e)
         ELSE MarkRadios(st, radios, i + 1, e)

First(S) == IF S = {} THEN 0 ELSE CHOOSE k \in S : \A j \in S : k <= j

\* getElementById, else [name="..."], else [id*="..."], [name*="..."]: the
\* first such control of the document, 0 for null.
ResolveElement(d, key) ==
    LET byId    == {k \in DOMAIN d : key # "" /\ d[k].id = key}
        byName  == {k \in DOMAIN d : d[k].name = key}
        partial == {k \in DOMAIN d :
                       /\ key # ""
                       /\ \/ includes(Chars(d[k].id), Chars(key))
                          \/ includes(Chars(d[k].name), Chars(key))}
    IN  IF byId # {} THEN First(byId)
        ELSE IF byName # {} THEN First(byName)
        ELSE First(partial)

\* Regular field processing.
FillElement(st, e) ==
    LET element == ResolveElement(st.dom, e.key)
    IN  IF element = 0 \/ st.dom[element].type \in {"hidden", "submit", "button"}
        THEN st
        ELSE IF st.dom[element].type = "radio"
        THEN [st EXCEPT !.dom = CheckRadio(st.dom, element),
                        !.events = Append(@, [target |-> element, type |-> "change"]),
                        !.filled = @ + 1]
        ELSE [st EXCEPT !.dom[element].value = e.value,
                        !.events = @ \o <<[target |-> element, type |-> "input"],
                                          [target |-> element, type |-> "change"]>>,
                        !.filled = @ + 1]

\* The callback of Object.entries(mappings).forEach for entry n.  An entry's
\* value is a string unless string is FALSE (a JSON number).
ApplyEntry(st, n) ==
    LET e == mappings[n]
        radioButtons == RadiosNamed(st.dom, e.key)
    IN  IF e.value = "" \/ e.value = "N/A" THEN st
        ELSE IF BreaksSelector(e.key) THEN [st EXCEPT !.thrown = n]
        ELSE IF radioButtons # <<>> /\ ~e.string THEN [st EXCEPT !.thrown = n]
        ELSE LET marked == MarkRadios(st, radioButtons, 1, e)
             IN  IF marked.filled # st.filled THEN marked
                 ELSE FillElement(st, e)

\* The injected function: the entries in the map's order, up to the first
\* exception.
RECURSIVE ApplyFrom(_, _)
ApplyFrom(st, n) ==
    IF n > Len(mappings) \/ st.thrown # 0 THEN st
    ELSE ApplyFrom(ApplyEntry(st, n), n + 1)

\* One run of the Value Applier on a page it has not touched yet.
ApplyMappings ==
    /\ ~applierDone
    /\ applierDone' = TRUE
    /\ LET st == ApplyFrom([dom |-> dom, events |-> <<>>, filled |-> 0,
                            thrown |-> 0], 1)
       IN  /\ dom' = st.dom
           /\ events' = st.events
           /\ filled' = st.filled
           /\ thrown' = st.thrown
    /\ UNCHANGED <<sidebarVars, containers, detectedFields, injectedFields,
                   simpleFields, mappings, labelVars, scriptVars, logVars>>

Target(type, id, name, value, label) ==
    [type |-> type, id |-> id, name |-> name, value |-> value, label |-> label,
     checked |-> FALSE, form |-> 0]

TargetKinds ==
    {Target("text",   "cn", "",   "",  ""),
     Target("text",   "",   "cn", "",  ""),
     Target("hidden", "cn", "",   "",  ""),
     Target("radio",  "cn", "",   "x", ""),
     Target("radio",  "",   "g",  "a", "Sun"),
     Target("radio",  "",   "g",  "b", "No Sun")}

\* The pages: up to MaxTargets controls in document order, no control twice.
Pages ==
    {d \in UNION {[1..n -> TargetKinds] : n \in 0..MaxTargets} :
        \A i, j \in DOMAIN d : d[i] = d[j] => i = j}

Entry(key, value, string) == [key |-> key, value |-> value, string |-> string]

Entries ==
    {Entry("g", "b", TRUE), Entry("g", "sun", TRUE), Entry("g", "x", TRUE),
     Entry("g", "5", FALSE), Entry("cn", "v", TRUE), Entry("cn", "", TRUE),
     Entry("cn", "N/A", TRUE), Entry("n", "v", TRUE), Entry("zz", "v", TRUE),
     Entry("q\"", "v", TRUE)}

\* The entries of an object, in insertion order: no key twice.
ValueMaps ==
    {m \in UNION {[1..n -> Entries] : n \in 0..MaxEntries} :
        \A i, j \in DOMAIN m : m[i].key = m[j].key => i = j}

InitApply ==
    /\ SidebarInit
    /\ dom \in Pages
    /\ containers = <<>>
    /\ NothingDetected
    /\ mappings \in ValueMaps
    /\ events = <<>>
    /\ filled = 0
    /\ thrown = 0
    /\ applierDone = FALSE
    /\ LabelIdle
    /\ ScriptIdle
    /\ LogIdle

NextApply == ApplyMappings

SpecApply == InitApply /\ [][NextApply]_vars

\* ------------------- getFieldLabel and classifyField on the text of an element
\* The strings of an element are sequences of characters here.
Whitespace == {" ", "\t"}

RECURSIVE trimStart(_)
trimStart(s) ==
    IF s # <<>> /\ s[1] \in Whitespace THEN trimStart(Tail(s)) ELSE s

RECURSIVE trimEnd(_)
trimEnd(s) ==
    IF s # <<>> /\ s[Len(s)] \in Whitespace
    THEN trimEnd(SubSeq(s, 1, Len(s) - 1))
    ELSE s

\* String.prototype.trim
trim(s) == trimEnd(trimStart(s))

\* label.replace(/[*:]+$/, ''): the run of asterisks and colons the string
\* ends with is removed.
RECURSIVE stripMarks(_)
stripMarks(s) ==
    IF s # <<>> /\ s[Len(s)] \in {"*", ":"}
    THEN stripMarks(SubSeq(s, 1, Len(s) - 1))
    ELSE s

\* label.replace(/\s+/g, ' ')
RECURSIVE normalizeWhitespace(_)
normalizeWhitespace(s) ==
    IF s = <<>> THEN <<>>
    ELSE IF s[1] \in Whitespace
         THEN <<" ">> \o normalizeWhitespace(trimStart(s))
         ELSE <<s[1]>> \o normalizeWhitespace(Tail(s))

\* getFieldLabel(element) for an element whose caption is read from labelText
\* (the text of its label element, its aria-label or the text next to it):
\* the trimmed text, cleaned up when it is not empty.
fieldLabel(el) ==
    LET label == trim(el.labelText)
    IN  IF label = <<>> THEN <<>>
        ELSE normalizeWhitespace(trim(stripMarks(label)))

LowerSeq(s) == [i \in DOMAIN s |-> Lower(s[i])]

\* element.placeholder in a template string: a select has no such property.
PlaceholderText(el) ==
    IF el.tag = "select" THEN Chars("undefined") ELSE el.placeholder

\* (element.name + ' ' + element.id + ' ' + element.placeholder + ' ' +
\*  this.getFieldLabel(element)).toLowerCase()
fieldTextMutant(el) ==
    LowerSeq(el.name \o <<" ">> \o el.id \o <<" ">> \o <<" ">> \o fieldLabel(el))

fieldText(el) ==
    LowerSeq(el.name \o <<" ">> \o el.id \o <<" ">> \o PlaceholderText(el)
             \o <<" ">> \o fieldLabel(el))

\* for (const [type, keywords] of Object.entries(fieldTypes)), from entry e on
RECURSIVE firstFieldType(_, _)
firstFieldType(text, e) ==
    IF e > Len(fieldTypes) THEN "unknown"
    ELSE IF \E keyword \in fieldTypes[e][2] : includes(text, Chars(keyword))
         THEN fieldTypes[e][1]
         ELSE firstFieldType(text, e + 1)

\* classifyField(element) on the element's text
classifyElement(el) ==
    CASE el.type = "email"  -> "email"
      [] el.type = "tel"    -> "phone"
      [] el.type = "date"   -> "date"
      [] el.type = "number" -> "number"
      [] el.type = "url"    -> "url"
      [] OTHER -> firstFieldType(fieldText(el), 1)

GetFieldLabel ==
    /\ elemLabel = <<>>
    /\ elemLabel' = <<fieldLabel(elem)>>
    /\ UNCHANGED <<sidebarVars, dom, containers, detectedFields, injectedFields,
                   simpleFields, applierVars, elem, elemType, scriptVars, logVars>>

ClassifyField ==
    /\ elemType = "none"
    /\ elemType' = classifyElement(elem)
    /\ UNCHANGED <<sidebarVars, dom, containers, detectedFields, injectedFields,
                   simpleFields, applierVars, elem, elemLabel, scriptVars, logVars>>

Element(tag, type, name, id, placeholder, labelText) ==
    [tag |-> tag, type |-> type, name |-> name, id |-> id,
     placeholder |-> placeholder, labelText |-> labelText]

\* Caption texts of up to MaxLabel characters.
LabelTexts ==
    UNION {[1..n -> {"a", " ", "\t", ":", "*"}] : n \in 0..MaxLabel}

\* Text inputs that differ in their caption only.
LabelElements ==
    {Element("input", "text", <<>>, <<>>, <<>>, t) : t \in LabelTexts}

\* Tag and type of the elements the detector queries.
ElementTypes ==
    {<<"input", "text">>, <<"input", "email">>, <<"input", "tel">>,
     <<"input", "date">>, <<"input", "number">>, <<"input", "url">>,
     <<"select", "select-one">>, <<"textarea", "textarea">>}

\* Elements whose name, id, placeholder and caption hit none, one or several
\* entries of the keyword table.
ClassifyElements ==
    {Element(tt[1], tt[2], Chars(n), Chars(i),
             IF tt[1] = "select" THEN <<>> ELSE Chars(p), Chars(l)) :
        tt \in ElementTypes,
        n \in {"", "email_name", "userid", "PhoneNumber", "zz"},
        i \in {"", "addr1"},
        p \in {"", "Enter URL"},
        l \in {"", "Fee $:", "E-Mail *", "Full Name"}}

InitLabel ==
    /\ SidebarInit
    /\ dom = <<>>
    /\ containers = <<>>
    /\ NothingDetected
    /\ ApplierIdle
    /\ elem \in LabelElements \cup ClassifyElements
    /\ elemLabel = <<>>
    /\ elemType = "none"
    /\ ScriptIdle
    /\ LogIdle

NextLabel ==
    \/ GetFieldLabel
    \/ ClassifyField

SpecLabel == InitLabel /\ [][NextLabel]_vars

\* ------------------------- the content script at run time (content.js)
\* Controls a page script adds to the watched document.
ObservedControls ==
    {c \in Controls :
        \/ c.type = "text" /\ ~c.disabled /\ c.form = 0
        \/ c.type = "radio" /\ c.name = "g" /\ ~c.disabled /\ c.visible /\ c.form = 1}

InsertAt(d, p, c) == SubSeq(d, 1, p) \o <<c>> \o SubSeq(d, p + 1, Len(d))

\* isPermitWebsite(): an indicator in the hostname or URL, or a form, input,
\* select or textarea in the document.
isPermitWebsite == permitSite \/ dom # <<>>

\* DOMContentLoaded: new FormAssistant(), whose constructor calls init(), which
\* runs up to await this.loadSelectedProject().
DomContentLoaded ==
    /\ scriptPc = "domLoading"
    /\ scriptPc' = "loading"
    /\ UNCHANGED <<sidebarVars, dom, containers, detectedFields, injectedFields,
                   simpleFields, applierVars, labelVars, logVars, permitSite, observing,
                   records, roundTrip>>

\* init() after the await: detection and the observer, on a permit website only.
InitResume ==
    /\ scriptPc = "loading"
    /\ scriptPc' = "idle"
    /\ IF isPermitWebsite
       THEN detectedFields' = detectForms /\ observing' = TRUE
       ELSE UNCHANGED <<detectedFields, observing>>
    /\ UNCHANGED <<sidebarVars, dom, containers, injectedFields, simpleFields,
                   applierVars, labelVars, logVars, permitSite, records, roundTrip>>

\* A script of the page adds a control somewhere in the document; an observer
\* that is connected queues a childList record for it.
AddElement ==
    \E c \in ObservedControls, p \in 0..Len(dom) :
        /\ Len(dom) < MaxObserved
        /\ Len(records) < MaxRecords
        /\ WellFormed(InsertAt(dom, p, c))
        /\ dom' = InsertAt(dom, p, c)
        /\ records' = IF observing THEN Append(records, TRUE) ELSE records
        /\ UNCHANGED <<sidebarVars, containers, detectedFields, injectedFields,
                       simpleFields, applierVars, labelVars, logVars, scriptPc, permitSite,
                       observing, roundTrip>>

\* A script of the page adds an element that is no form, input, select or
\* textarea and holds none.
AddOtherNode ==
    /\ observing
    /\ Len(records) < MaxRecords
    /\ records' = Append(records, FALSE)
    /\ UNCHANGED <<sidebarVars, dom, containers, detectedFields, injectedFields,
                   simpleFields, applierVars, labelVars, logVars, scriptPc, permitSite,
                   observing, roundTrip>>

\* The observer's callback on the queued records.
ShouldRedetect(rs) == \E i \in DOMAIN rs : rs[i]

ObserverCallback ==
    /\ records # <<>>
    /\ records' = <<>>
    /\ IF ShouldRedetect(records)
       THEN detectedFields' = detectForms
       ELSE UNCHANGED detectedFields
    /\ UNCHANGED <<sidebarVars, dom, containers, injectedFields, simpleFields,
                   applierVars, labelVars, logVars, scriptPc, permitSite, observing,
                   roundTrip>>

\* chrome.runtime.onMessage, action 'detectForms'.  A task of the page runs
\* after the microtasks of the task before it: no record is pending.
OnDetectForms ==
    /\ roundTrip.pc = "none"
    /\ records = <<>>
    /\ IF scriptPc = "domLoading"
       THEN /\ roundTrip' = [roundTrip EXCEPT !.pc = "failed"]
            /\ UNCHANGED detectedFields
       ELSE /\ detectedFields' = detectForms
            /\ roundTrip' = [roundTrip EXCEPT !.pc = "counted",
                                              !.fieldsCount = Len(detectForms)]
    /\ UNCHANGED <<sidebarVars, dom, containers, injectedFields, simpleFields,
                   applierVars, labelVars, logVars, scriptPc, permitSite, observing,
                   records>>

\* chrome.runtime.onMessage, action 'getDetectedFields', which the sidebar
\* sends after a successful detectForms response.
OnGetDetectedFields ==
    /\ roundTrip.pc = "counted"
    /\ records = <<>>
    /\ roundTrip' = [roundTrip EXCEPT !.pc = "done", !.fields = detectedFields]
    /\ UNCHANGED <<sidebarVars, dom, containers, detectedFields, injectedFields,
                   simpleFields, applierVars, labelVars, logVars, scriptPc, permitSite,
                   observing, records>>

InitScript ==
    /\ SidebarInit
    /\ dom \in {d \in UNION {[1..n -> ObservedControls] : n \in 0..1} : WellFormed(d)}
    /\ containers = <<>>
    /\ NothingDetected
    /\ ApplierIdle
    /\ LabelIdle
    /\ scriptPc \in {"domLoading", "loading"}
    /\ permitSite \in BOOLEAN
    /\ observing = FALSE
    /\ records = <<>>
    /\ roundTrip = NoRoundTrip
    /\ LogIdle

NextScript ==
    \/ DomContentLoaded
    \/ InitResume
    \/ AddElement
    \/ AddOtherNode
    \/ ObserverCallback
    \/ OnDetectForms
    \/ OnGetDetectedFields

SpecScript == InitScript /\ [][NextScript]_vars

\* ------------------------------- the background script's activity log
\* `if (log.length > 100)`: the number of activities the stored log keeps.
LogCap == 100

\* log.splice(0, log.length - 100) under `if (log.length > 100)`.
keepLast(log) ==
    IF Len(log) > LogCap THEN SubSeq(log, Len(log) - LogCap + 1, Len(log))
    ELSE log

\* The activity handleFormFilled builds; timestamp is Date.now(), a clock
\* that has advanced between two messages.
Activity(timestamp, fieldsCount) ==
    [type |-> "form_filled", timestamp |-> timestamp, fieldsCount |-> fieldsCount]

\* An activity logged before the run.
Earlier == Activity(0, 0)

\* message.fillData of a FORM_FILLED message: undefined, or an object with
\* its fieldsCount.
NoFillData == [present |-> FALSE, fieldsCount |-> 0]

FillDatas == {NoFillData} \cup {[present |-> TRUE, fieldsCount |-> n] : n \in 0..1}

\* A request to chrome.storage.local: get(['activityLog'], callback) on behalf
\* of logActivity(activity), or set({activityLog: log}).
Request(op, activity, log) == [op |-> op, activity |-> activity, log |-> log]

\* handleFormFilled(message, sendResponse).  Without fillData the activity's
\* object literal throws before logActivity is called and the catch block
\* answers with success: false.  logActivity issues storage.get and returns.
HandleFormFilled ==
    /\ handled < MaxActivities
    /\ handled' = handled + 1
    /\ \E fillData \in FillDatas :
         IF fillData.present
         THEN LET activity == Activity(handled + 1, fillData.fieldsCount)
              IN  /\ logged' = Append(logged, activity)
                  /\ storageQueue' = Append(storageQueue, Request("get", activity, <<>>))
                  /\ lastReply' = "success"
         ELSE /\ lastReply' = "failure"
              /\ UNCHANGED <<logged, storageQueue>>
    /\ UNCHANGED <<activityLog, callbacks>>
    /\ UNCHANGED <<sidebarVars, dom, containers, detectedFields, injectedFields,
                   simpleFields, applierVars, labelVars, scriptVars>>

\* The storage area performs the oldest request: a get hands a copy of the
\* stored log (result.activityLog) to its callback, a set replaces the log.
StorageStep ==
    /\ storageQueue # <<>>
    /\ LET request == Head(storageQueue)
       IN  IF request.op = "get"
           THEN /\ callbacks' = Append(callbacks,
                                       [activity |-> request.activity,
                                        result |-> activityLog])
                /\ UNCHANGED activityLog
           ELSE /\ activityLog' = request.log
                /\ UNCHANGED callbacks
    /\ storageQueue' = Tail(storageQueue)
    /\ UNCHANGED <<logged, handled, lastReply>>
    /\ UNCHANGED <<sidebarVars, dom, containers, detectedFields, injectedFields,
                   simpleFields, applierVars, labelVars, scriptVars>>

\* logActivity's callback of storage.get: push, cap, storage.set.
GetCallback ==
    /\ callbacks # <<>>
    /\ LET call == Head(callbacks)
           log  == keepLast(Append(call.result, call.activity))
       IN  storageQueue' = Append(storageQueue, Request("set", call.activity, log))
    /\ callbacks' = Tail(callbacks)
    /\ UNCHANGED <<activityLog, logged, handled, lastReply>>
    /\ UNCHANGED <<sidebarVars, dom, containers, detectedFields, injectedFields,
                   simpleFields, applierVars, labelVars, scriptVars>>

\* The stored log at the start: empty, one below the cap, or at the cap.
StoredLogs == {[i \in 1..n |-> Earlier] : n \in {0, LogCap - 1, LogCap}}

InitLog ==
    /\ SidebarInit
    /\ dom = <<>>
    /\ containers = <<>>
    /\ NothingDetected
    /\ ApplierIdle
    /\ LabelIdle
    /\ ScriptIdle
    /\ activityLog \in StoredLogs
    /\ storageQueue = <<>>
    /\ callbacks = <<>>
    /\ logged = <<>>
    /\ handled = 0
    /\ lastReply = "none"

NextLog ==
    \/ HandleFormFilled
    \/ StorageStep
    \/ GetCallback

SpecLog == InitLog /\ [][NextLog]_vars

\* ================================================================ claims
Success == "Form auto-filled successfully"

NoFieldsAlert == "No form fields detected"

\* C1: in one sidebar session at most one analyzeFields and at most one
\* auto-fill operation is in flight at any time.
C1_OneInFlight ==
    /\ Cardinality(InFlight("analyzeFields")) <= 1
    /\ Cardinality(InFlight("startAutoFill")) <= 1

\* C2: Select Project is enabled only once a field analysis has succeeded, the
\* project list is only requested then, and every AI field-mapping request is
\* sent with fields analyzed and a project selected.
C2_WorkflowOrder ==
    /\ ~selectProjectBtnDisabled => workflowState.fieldsAnalyzed
    /\ \A i \in Ops :
         /\ tasks[i].op = "showProjectSelection" => workflowState.fieldsAnalyzed
         /\ (tasks[i].op = "startAutoFill" /\ ~Free(i)) =>
              /\ workflowState.fieldsAnalyzed
              /\ workflowState.projectSelected
              /\ ~tasks[i].req.fields.null
              /\ Len(tasks[i].req.fields.fields) > 0
              /\ tasks[i].req.project \in Projects

\* C2 witness: an AI field-mapping request has been sent and answered.
C2_Witness ==
    \E i \in Ops : tasks[i].op = "startAutoFill" /\ tasks[i].pc = "av_tabs"

\* C3: the step in which an analysis reports that no field was detected leaves
\* fieldsAnalyzed false and Select Project disabled.
C3_NoFieldsNotAnalyzed ==
    [][\A i \in Ops :
         (tasks[i].alert # NoFieldsAlert /\ tasks'[i].alert = NoFieldsAlert)
            => (~workflowState'.fieldsAnalyzed /\ selectProjectBtnDisabled')]_vars

FailedSteps == {"tabs", "detection", "projects", "mapping", "apply"}

C5_SampleDataFallback ==
    \A i \in Ops :
        (/\ tasks[i].op = "startAutoFill"
         /\ tasks[i].alert = Success
         /\ tasks[i].emptyMap)
        => sampleFills

\* C6: auto-fill success is reported only when the Value Applier has run on
\* the page for the returned value map.
C6_FilledAfterApplier ==
    \A i \in Ops :
        (tasks[i].op = "startAutoFill" /\ tasks[i].alert = Success) => tasks[i].ran

\* C7: whenever a detection has left at least one field, fieldsAnalyzed is true
\* and analyzedFields holds those fields; and once the upload has completed,
\* with whatever outcome, Select Project is enabled and no failure is reported.
C7_UploadDoesNotBlock ==
    /\ Len(formFields) > 0 =>
         /\ workflowState.fieldsAnalyzed
         /\ analyzedFields = [null |-> FALSE, fields |-> AnalysisFields(formFields)]
    /\ \A i \in Ops :
         (tasks[i].op = "analyzeFields" /\ tasks[i].pc = "done" /\ tasks[i].upload # "")
            => /\ workflowState.fieldsAnalyzed
               /\ ~analyzedFields.null
               /\ ~selectProjectBtnDisabled
               /\ tasks[i].alert = ""

\* C7 witness: an analysis has completed although its upload failed.
C7_Witness ==
    \E i \in Ops : /\ tasks[i].op = "analyzeFields" /\ tasks[i].pc = "done"
                   /\ tasks[i].upload \in {"httpError", "networkError"}
                   /\ ~selectProjectBtnDisabled

\* C8: no failure of an asynchronous call leaves a sidebar action as an
\* unhandled rejection.
C8_NoUnhandledRejection == ~unhandled


IsGroup(fields, n) == fields[n].type = "radio-group"

Members(fields, n) ==
    {fields[n].radioButtons[m] : m \in DOMAIN fields[n].radioButtons}

RadioInBoth(fields) ==
    \E g, f \in DOMAIN fields :
        /\ IsGroup(fields, g)
        /\ ~IsGroup(fields, f)
        /\ fields[f].element \in Members(fields, g)

\* C9: in the output of a detection pass no radio control is both a member of
\* a radio-group field and the element of a standalone field.
C9_RadioNotInBoth ==
    /\ ~RadioInBoth(detectedFields)
    /\ ~RadioInBoth(injectedFields)

\* A result holding a radio group next to a radio detected as a field of its
\* own (a radio without a name).
C9_Witness ==
    \E g, f \in DOMAIN detectedFields :
        /\ IsGroup(detectedFields, g)
        /\ detectedFields[f].type = "radio"
        /\ dom[detectedFields[f].element].form = dom[detectedFields[g].element].form

\* The enabled, visible radios of the document that carry the name.
SameNameRadios(name) ==
    {k \in DOMAIN dom :
        dom[k].type = "radio" /\ dom[k].name = name /\ VisibleRadio(k)}

AggregatesDocument(fields) ==
    \A g \in DOMAIN fields :
        IsGroup(fields, g) =>
            /\ Members(fields, g) = SameNameRadios(fields[g].name)
            /\ \A h \in DOMAIN fields :
                   (IsGroup(fields, h) /\ fields[h].name = fields[g].name) => h = g

\* C10: every radio-group field of a detection result holds all visible
\* radios of the document that share its name, and a name has at most one
\* radio-group field, wherever the radios sit.
C10_GroupAggregatesDocument ==
    /\ AggregatesDocument(detectedFields)
    /\ AggregatesDocument(injectedFields)


NamelessRadio(k) == dom[k].type = "radio" /\ dom[k].name = ""

EmitsNamelessRadio(fields) ==
    \E n \in DOMAIN fields :
        \/ NamelessRadio(fields[n].element)
        \/ \E k \in Members(fields, n) : NamelessRadio(k)

\* C11: a radio control without a name yields no field: it is neither a member
\* of a radio-group field nor a standalone field of a detection result.
C11_NamelessRadioDropped ==
    /\ ~EmitsNamelessRadio(detectedFields)
    /\ ~EmitsNamelessRadio(injectedFields)


\* C14: a detection on an unchanged document that already holds a result
\* leaves the same fields in the same order, whatever the earlier result was.
C14_DetectionDeterministic ==
    [][(dom' = dom /\ containers' = containers) =>
          /\ detectedFields # <<>> => detectedFields' = detectedFields
          /\ injectedFields # <<>> => injectedFields' = injectedFields]_vars

\* A result of all three passes that the next detection finds in
\* this.detectedFields: fields and a radio group, inside form-like containers.
C14_Witness ==
    /\ containers # <<>>
    /\ \E g, f \in DOMAIN detectedFields :
           IsGroup(detectedFields, g) /\ ~IsGroup(detectedFields, f)
    /\ injectedFields # <<>>

\* The fields of a result that capture control k.
Captures(fields, k) ==
    {n \in DOMAIN fields :
        IF IsGroup(fields, n) THEN k \in Members(fields, n)
        ELSE fields[n].element = k}

\* C19: within one detection pass every control is captured at most once,
\* also when the form-like containers are nested.
C19_CapturedOnce ==
    \A k \in DOMAIN dom : Cardinality(Captures(detectedFields, k)) <= 1

\* A result over nested containers whose controls the first two passes had
\* captured, as a field and as a member of a radio group.
C19_Witness ==
    /\ Len(containers) = 2
    /\ \E g, f \in DOMAIN detectedFields :
           /\ IsGroup(detectedFields, g)
           /\ ~IsGroup(detectedFields, f)
           /\ Len(detectedFields[g].radioButtons) = 2

\* The place of a scan scope in the order of the passes: the forms in
\* document order, then the controls outside any form.
ScopeRank(k) ==
    IF dom[k].form = 0 THEN Cardinality(Forms) + 1 ELSE dom[k].form

\* C20: the fields of a result follow the order of the passes and, within a
\* scan scope, document order, a radio group standing where its first visible
\* member stands among the other fields.
C20_DiscoveryOrder ==
    \A m, n \in DOMAIN detectedFields :
        m < n =>
            /\ ScopeRank(detectedFields[m].element)
                  <= ScopeRank(detectedFields[n].element)
            /\ ScopeRank(detectedFields[m].element)
                  = ScopeRank(detectedFields[n].element)
                 => detectedFields[m].element < detectedFields[n].element


\* The visible, enabled radios of a name in the scan scope of control k, in
\* document order.
ScopeMembers(name, k) ==
    Ascending({j \in DOMAIN dom :
                  /\ dom[j].type = "radio" /\ dom[j].name = name
                  /\ dom[j].form = dom[k].form
                  /\ VisibleRadio(j)})

GroupOptionsAndValue(fields) ==
    /\ \A g \in DOMAIN fields :
          IsGroup(fields, g) =>
              LET members == ScopeMembers(fields[g].name, fields[g].element)
                  checked == {i \in DOMAIN members : dom[members[i]].checked}
              IN  /\ Len(fields[g].options) = Len(members)
                  /\ \A i \in DOMAIN members :
                         fields[g].options[i].element = members[i]
                  /\ checked = {} => fields[g].value = ""
                  /\ \A i \in checked : fields[g].value = dom[members[i]].value
    /\ \A g \in DOMAIN fields : IsGroup(fields, g) => Len(fields[g].options) >= 1

\* C12: a radio-group field has one option per visible, enabled radio of its
\* group, in document order, and its value is the value of the checked one
\* among them, or the empty string when none of them is checked; a field is
\* emitted for a group exactly when it has such a radio.
C12_GroupOptionsAndValue ==
    /\ GroupOptionsAndValue(detectedFields)
    /\ GroupOptionsAndValue(injectedFields)
    /\ \A k \in DOMAIN dom :
          (detectedFields # <<>> /\ GroupedRadio(k)) =>
              (VisibleRadio(k) <=> Captures(detectedFields, k) # {})

\* A group of two visible radios whose second one is checked.
C12_Witness ==
    \E g \in DOMAIN detectedFields :
        /\ IsGroup(detectedFields, g)
        /\ Len(detectedFields[g].options) = 2
        /\ detectedFields[g].options[2].checked
        /\ detectedFields[g].value = "b"

Excluded(k) ==
    \/ dom[k].type \in {"hidden", "submit", "button", "image", "reset"}
    \/ dom[k].disabled
    \/ ~dom[k].visible

NoExcludedControl(fields) ==
    \A k \in DOMAIN dom : Excluded(k) => Captures(fields, k) = {}

C18_ConfidenceRange ==
    \A n \in DOMAIN detectedFields :
        LET f == detectedFields[n]
        IN  /\ f.confidence \in 0..10
            /\ f.confidence = 10 =>
                  /\ f.required
                  /\ Len(Chars(f.label)) > 2
                  /\ f.fieldType # "unknown"

\* A result with a field of confidence 1 and fields that miss it for each of
\* the three reasons.
C18_Witness ==
    /\ \E n \in DOMAIN detectedFields : detectedFields[n].confidence = 10
    /\ \E n \in DOMAIN detectedFields :
           detectedFields[n].confidence \in {5, 7, 8}


EventsOn(S) == SelectSeq(events, LAMBDA ev : ev.target \in S)

NamesGroup(key) == RadiosNamed(dom, key) # <<>>

\* C15: for an entry with a non-empty value whose key is the name of a radio
\* group of the page with a member that matches the value, the Value Applier
\* dispatches one change event on the radios of the group, on a radio whose
\* value or label matches, and no entry is counted more than once.
C15_OneRadioPerGroup ==
    (applierDone /\ thrown = 0) =>
        /\ \A n \in DOMAIN mappings :
              LET group == {k \in DOMAIN dom :
                               dom[k].type = "radio"
                               /\ dom[k].name = mappings[n].key}
              IN  (/\ mappings[n].value \notin {"", "N/A"}
                   /\ mappings[n].string
                   /\ \E k \in group : RadioMatches(dom, k, mappings[n]))
                  => /\ Len(EventsOn(group)) = 1
                     /\ \A k \in group :
                            EventsOn({k}) # <<>> => RadioMatches(dom, k, mappings[n])
        /\ filled <= Len(mappings)

\* Entry n has a value to apply, names no radio group and resolves (by id,
\* else name, else partial id or name) to a control the applier fills, to
\* which no other entry resolves.
Fillable(n) ==
    LET e  == mappings[n]
        el == ResolveElement(dom, e.key)
    IN  /\ e.value \notin {"", "N/A"}
        /\ ~NamesGroup(e.key)
        /\ el # 0
        /\ dom[el].type \notin {"hidden", "submit", "button"}
        /\ \A m \in DOMAIN mappings :
               ResolveElement(dom, mappings[m].key) = el => m = n

\* C16: the control such an entry resolves to holds the entry's value after
\* the run and has received exactly one input event followed by exactly one
\* change event (stated for runs that no entry ended early).
C16_ValueInputChange ==
    (applierDone /\ thrown = 0) =>
        \A n \in DOMAIN mappings :
            LET el == ResolveElement(dom, mappings[n].key)
            IN  Fillable(n) =>
                   /\ dom[el].value = mappings[n].value
                   /\ EventsOn({el}) = <<[target |-> el, type |-> "input"],
                                         [target |-> el, type |-> "change"]>>

Unmatched(key) == ~NamesGroup(key) /\ ResolveElement(dom, key) = 0

\* C17: a key that matches no control of the page changes nothing and does not
\* stop the batch: beside such an entry every other entry is applied (unless
\* an entry that does match a control ended the run), and a map of such keys
\* only leaves the page untouched and the filled count at zero.
C17_UnmatchedKeySkipped ==
    applierDone =>
        /\ \A n, m \in DOMAIN mappings :
              (/\ Unmatched(mappings[n].key)
               /\ Fillable(m)
               /\ dom[ResolveElement(dom, mappings[m].key)].type # "radio"
               /\ thrown = 0 \/ Unmatched(mappings[thrown].key))
              => dom[ResolveElement(dom, mappings[m].key)].value = mappings[m].value
        /\ (\A n \in DOMAIN mappings : Unmatched(mappings[n].key))
              => (events = <<>> /\ filled = 0)

\* In the lowercase name, id, placeholder or label of the element occurs a
\* keyword of entry e of the keyword table.
KeywordHit(e) ==
    \E keyword \in fieldTypes[e][2] :
        \E part \in {elem.name, elem.id, elem.placeholder, fieldLabel(elem)} :
            includes(LowerSeq(part), Chars(keyword))

NativeTag ==
    [email |-> "email", tel |-> "phone", date |-> "date", number |-> "number",
     url |-> "url"]

\* C21: once classifyField has answered, the answer is the tag of the
\* element's type when the type is email, tel, date, number or url; else it is
\* the tag of the first entry of the keyword table with a keyword in the
\* lowercase name, id, placeholder or label, and unknown when there is none.
C21_ClassifierPrecedence ==
    elemType # "none" =>
        IF elem.type \in DOMAIN NativeTag
        THEN elemType = NativeTag[elem.type]
        ELSE IF \A e \in DOMAIN fieldTypes : ~KeywordHit(e)
             THEN elemType = "unknown"
             ELSE \E e \in DOMAIN fieldTypes :
                     /\ KeywordHit(e)
                     /\ \A x \in 1..(e - 1) : ~KeywordHit(x)
                     /\ elemType = fieldTypes[e][1]

\* A text input whose name holds keywords of two entries of the table has been
\* given the tag of the earlier one.
C21_Witness ==
    /\ elem.type = "text"
    /\ elemType = "username"
    /\ KeywordHit(18) /\ KeywordHit(19)

\* C22: the label getFieldLabel returned does not end with a colon or an
\* asterisk and holds no two whitespace characters in a row.
C22_LabelCleaned ==
    elemLabel # <<>> =>
        LET label == elemLabel[1]
        IN  /\ label # <<>> => label[Len(label)] \notin {":", "*"}
            /\ \A i \in 1..(Len(label) - 1) :
                  ~(label[i] \in Whitespace /\ label[i + 1] \in Whitespace)

\* C23: once the content script has loaded and the observer's callbacks have
\* run, detectedFields is the detection of the document as it is now: a control
\* added since the last pass has triggered a new pass that replaced the list.
C23_AddedElementRedetected ==
    (scriptPc = "idle" /\ records = <<>>) => detectedFields = detectForms

\* C27: the list answered to getDetectedFields has as many fields as the
\* detectForms response of the same exchange counted.
C27_FieldsMatchCount ==
    roundTrip.pc = "done" => Len(roundTrip.fields) = roundTrip.fieldsCount

\* C24: formFields holds the list of the detection response that was processed
\* last, whichever pass it came from: a response of a pass that was started
\* before an already answered one is not discarded.
C24_LastResponseWins ==
    lastResponse.present => formFields = lastResponse.fields

\* The response processed last came from a pass that was started before a pass
\* answered earlier, and formFields holds its list.
C24_Witness ==
    /\ lastResponse.present
    /\ lastResponse.stale
    /\ formFields = lastResponse.fields

\* What the two detection paths are compared on.
Described(fields) ==
    {[id |-> fields[n].id, type |-> fields[n].type, label |-> fields[n].label,
      fieldType |-> fields[n].fieldType] : n \in DOMAIN fields}

\* C25: once both detection paths have answered for a page, they describe the
\* same logical fields: the same ids, each with the same type, label and
\* fieldType.
C25_PathsAgree ==
    (detectedFields # <<>> /\ injectedFields # <<>>) =>
        Described(detectedFields) = Described(injectedFields)

\* C26: no two fields of one detection result have the same id.
UniqueIds(fields) ==
    \A m, n \in DOMAIN fields : fields[m].id = fields[n].id => m = n

C26_UniqueIds ==
    /\ UniqueIds(detectedFields)
    /\ UniqueIds(injectedFields)


\* C28: for an entry with a non-empty value whose key is the name of a radio
\* group of the page none of whose members matches the value, the Value
\* Applier leaves every radio of the group as it was (unchecked, without an
\* event) and does not count the entry: a map of that entry alone ends with a
\* filled count of zero.
C28_NoMatchLeavesGroup ==
    (applierDone /\ thrown = 0) =>
        \A n \in DOMAIN mappings :
            LET group == {k \in DOMAIN dom :
                             dom[k].type = "radio"
                             /\ dom[k].name = mappings[n].key}
            IN  (/\ mappings[n].value \notin {"", "N/A"}
                 /\ mappings[n].string
                 /\ group # {}
                 /\ \A k \in group : ~RadioMatches(dom, k, mappings[n]))
                => /\ \A k \in group : ~dom[k].checked
                   /\ EventsOn(group) = <<>>
                   /\ Len(mappings) = 1 => filled = 0


\* C29: once the auto-fills started last have all completed and each of them
\* has applied its value map (the one for the selected project included), the
\* value map applied to the page last is the one mapped for the selected
\* project.
C29_AppliedIsSelected ==
    (\A i \in Ops : /\ tasks[i].op = "startAutoFill"
                    /\ tasks[i].pc = "done"
                    /\ tasks[i].ran)
    => applied = selectedProject


\* C30: the stored activityLog never holds more than LogCap entries, and once
\* every storage request and callback has run, each activity passed to
\* logActivity is in the stored log unless the log is at the cap.
C30_LogCompleteAndCapped ==
    /\ Len(activityLog) <= LogCap
    /\ (storageQueue = <<>> /\ callbacks = <<>>) =>
          \A k \in DOMAIN logged :
              \/ \E j \in DOMAIN activityLog : activityLog[j] = logged[k]
              \/ Len(activityLog) = LogCap

====
